---- MODULE Spec2Model ----
(***************************************************************************)
(* Scrape-session persistence pipeline of izrake/scrapenet:                *)
(*   TweetDatabase  (src/electron/main/database.js)                        *)
(*   TwitterScraper (src/electron/main/scraper.js)                         *)
(*   TempStorage    (src/electron/main/temp-storage.js)                    *)
(*                                                                         *)
(* Every async method is cut at its awaits: one action per stretch of      *)
(* synchronous code.  Callers are the in-flight calls; each runs in an OS  *)
(* process (proc).  Code between two awaits of one process is atomic with  *)
(* respect to the other calls of that process, not to other processes.     *)
(***************************************************************************)
EXTENDS Integers, Sequences, FiniteSets, TLC

\* ------------------------------------------------------------------ bounds
NumCallers == 2
MaxCrashes == 1
MaxCalls == 3

Callers == 1..NumCallers
SessionOrder == <<"s1", "s2">>
Sessions == {SessionOrder[i] : i \in 1..Len(SessionOrder)}
Sources == {"app", "api"}

\* ------------------------------------------------- strings as token lists
\* A URL is a list of tokens; MARK is the literal '/status/', QM is '?'.
MARK == "/status/"
QM == "?"
NoId == <<>>

RECURSIVE IndexFrom(_, _, _)
\* first index >= i of token t in s, 0 when there is none (String.indexOf)
IndexFrom(s, t, i) ==
  IF i > Len(s) THEN 0
  ELSE IF s[i] = t THEN i
  ELSE IndexFrom(s, t, i + 1)

\* tweet.url.split('/status/')[1]?.split('?')[0]   ('' and undefined are NoId)
TweetIdOf(url) ==
  LET a == IndexFrom(url, MARK, 1) IN
  IF a = 0 THEN NoId
  ELSE LET b == IndexFrom(url, MARK, a + 1)
           part == SubSeq(url, a + 1, IF b = 0 THEN Len(url) ELSE b - 1)
           q == IndexFrom(part, QM, 1)
       IN IF q = 0 THEN part ELSE SubSeq(part, 1, q - 1)

U1 == <<"h", MARK, "1">>
U1q == <<"h", MARK, "1", QM, "s">>
U2 == <<"h", MARK, "2">>
UBad == <<"h", "1">>
Urls == {U1, U1q, U2, UBad}
TweetIds == {TweetIdOf(u) : u \in Urls} \ {NoId}

\* ------------------------------------------------------- metric values
\* A raw metric is null, a string (list of characters) or a number num/den.
Null == [t |-> "null", s |-> <<>>, num |-> 0, den |-> 1]
Str(cs) == [t |-> "str", s |-> cs, num |-> 0, den |-> 1]
Num(n, d) == [t |-> "num", s |-> <<>>, num |-> n, den |-> d]
\* A parsed metric is NaN or the number num/den.
NaN == [nan |-> TRUE, num |-> 0, den |-> 1]
Val(n, d) == [nan |-> FALSE, num |-> n, den |-> d]

Digits == <<"0", "1", "2", "3", "4", "5", "6", "7", "8", "9">>
IsDigit(c) == \E i \in 1..10 : Digits[i] = c
DigitVal(c) == (CHOOSE i \in 1..10 : Digits[i] = c) - 1
ToLower(c) == IF c = "K" THEN "k" ELSE IF c = "M" THEN "m" ELSE c

RECURSIVE Pow10(_)
Pow10(k) == IF k = 0 THEN 1 ELSE 10 * Pow10(k - 1)

RECURSIVE DigitRun(_, _)
\* length of the run of digits of s that starts at index i
DigitRun(s, i) ==
  IF i > Len(s) \/ ~IsDigit(s[i]) THEN 0 ELSE 1 + DigitRun(s, i + 1)

RECURSIVE DigitsToInt(_)
DigitsToInt(s) ==
  IF s = <<>> THEN 0
  ELSE 10 * DigitsToInt(SubSeq(s, 1, Len(s) - 1)) + DigitVal(s[Len(s)])

RECURSIVE TrimLeft(_)
TrimLeft(s) == IF s # <<>> /\ s[1] = " " THEN TrimLeft(Tail(s)) ELSE s
RECURSIVE TrimRight(_)
TrimRight(s) ==
  IF s # <<>> /\ s[Len(s)] = " " THEN TrimRight(SubSeq(s, 1, Len(s) - 1)) ELSE s
\* String.prototype.trim
Trim(s) == TrimRight(TrimLeft(s))

\* parseInt(s): leading blanks skipped, then the leading run of digits; NaN if none
ParseInt(s) ==
  LET t == TrimLeft(s)
      k == DigitRun(t, 1)
  IN IF k = 0 THEN NaN ELSE Val(DigitsToInt(SubSeq(t, 1, k)), 1)

\* parseFloat(s) over digits and '.': digits [. digits] or . digits; NaN otherwise
ParseFloat(s) ==
  LET t == TrimLeft(s)
      k == DigitRun(t, 1)
      dot == k < Len(t) /\ t[k + 1] = "."
      f == IF dot THEN DigitRun(t, k + 2) ELSE 0
  IN IF k = 0 /\ f = 0 THEN NaN
     ELSE Val(DigitsToInt(SubSeq(t, 1, k) \o SubSeq(t, k + 2, k + 1 + f)), Pow10(f))

\* Math.round(x * by) for a parsed x >= 0; NaN stays NaN
RoundTimes(x, by) ==
  IF x.nan THEN NaN
  ELSE Val((2 * x.num * by + x.den) \div (2 * x.den), 1)

\* str.replace(/[^0-9.]/g, '')
StripNonNumeric(s) == SelectSeq(s, LAMBDA c : IsDigit(c) \/ c = ".")

\* value || 0
OrZero(x) == IF x.nan \/ x.num = 0 THEN Val(0, 1) ELSE x

\* TweetDatabase.parseMetric
parseMetric(value) ==
  IF value.t = "null" \/ (value.t = "str" /\ value.s = <<>>) THEN Val(0, 1)
  ELSE IF value.t = "num" THEN Val(value.num, value.den)
  ELSE IF DigitRun(value.s, 1) = Len(value.s) THEN ParseInt(value.s)
  ELSE LET str == Trim([i \in 1..Len(value.s) |-> ToLower(value.s[i])])
           body == SubSeq(str, 1, Len(str) - 1)
       IN IF str # <<>> /\ str[Len(str)] = "k" THEN RoundTimes(ParseFloat(body), 1000)
          ELSE IF str # <<>> /\ str[Len(str)] = "m" THEN RoundTimes(ParseFloat(body), 1000000)
          ELSE OrZero(ParseInt(StripNonNumeric(str)))

M7 == Str(<<"7">>)
M15K == Str(<<"1", ".", "5", "K">>)
Metrics == {M7, M15K}

\* ------------------------------------------------------------ tweets
\* A raw record of the producer: url, one metric counter, whether tweet.user is an object.
Tweet(u, m, hasUser) == [url |-> u, m |-> m, user |-> hasUser]
TweetsIn == {Tweet(U1, M7, TRUE), Tweet(U1q, M15K, TRUE), Tweet(U2, M7, TRUE), Tweet(UBad, M7, TRUE)}
BatchTweets == {Tweet(U1q, M7, TRUE), Tweet(U2, M7, TRUE), Tweet(UBad, M7, TRUE)}
\* the inputs of the concurrent calls
SaveTweets == {Tweet(U1, M7, TRUE), Tweet(U2, M7, TRUE)}
SaveBatches == {<<Tweet(U1q, M7, TRUE), Tweet(U1, M7, TRUE)>>, <<Tweet(U2, M7, TRUE)>>}

\* --------------------------------------------------------- local files
\* path.join(localDataDir, `session_${sessionId}.json`) and `sessionapi_...`;
\* a source that is neither 'app' nor 'api' leaves saveTweet's path undefined.
Undefined == <<"undefined", "">>
AppPath(sid) == <<"session_", sid>>
ApiPath(sid) == <<"sessionapi_", sid>>
\* `${sessionId}` of a call made without a session id (TwitterScraper.saveTweets
\* calls saveProfile(profile) so)
NoSessionId == "undefined"
Paths ==
  {AppPath(s) : s \in Sessions \cup {NoSessionId}} \cup {ApiPath(s) : s \in Sessions}
    \cup {Undefined}

\* saveTweet's three-way choice of the file
SaveTweetPath(src, sid) ==
  IF src = "app" THEN AppPath(sid)
  ELSE IF src = "api" THEN ApiPath(sid)
  ELSE Undefined

\* the two-way choice of startScrapingSession, completeScrapingSession, getTweetsBySession
SourcePath(src, sid) == IF src = "app" THEN AppPath(sid) ELSE ApiPath(sid)

\* File content: absent, unparseable (empty or cut short), or a session object.
\* status "none" and found -1 stand for a missing field.
FileAbsent == [kind |-> "absent", status |-> "none", tweets |-> <<>>, found |-> -1, profile |-> FALSE]
FileCorrupt == [kind |-> "corrupt", status |-> "none", tweets |-> <<>>, found |-> -1, profile |-> FALSE]
\* the object the catch branch of saveTweet, saveProfile and scrapeTweets builds
NewSessionData == [kind |-> "ok", status |-> "none", tweets |-> <<>>, found |-> -1, profile |-> FALSE]
\* the object startScrapingSession writes
StartedSessionData == [kind |-> "ok", status |-> "in_progress", tweets |-> <<>>, found |-> -1, profile |-> FALSE]

\* the element pushed on sessionData.tweets
StoredTweet(tw) == [tweet_id |-> TweetIdOf(tw.url), m |-> tw.m, user |-> tw.user]
IdsOf(tweets) == {tweets[i].tweet_id : i \in 1..Len(tweets)}
\* mutant: the existence check never finds the id
tweetExistsNever(tweets, id) == FALSE

\* sessionData.tweets.some(t => t.tweet_id === tweet_id)
tweetExists(tweets, id) == \E i \in 1..Len(tweets) : tweets[i].tweet_id = id

\* mutant: nothing is pushed
PushNothing(tweets, tw) == tweets

\* if (!tweetExists) sessionData.tweets.push({...})
PushIfNew(tweets, tw) ==
  IF tweetExists(tweets, TweetIdOf(tw.url)) THEN tweets ELSE Append(tweets, StoredTweet(tw))

RECURSIVE PushAllNoDedup(_, _)
\* mutant: the loop pushes every record that has an id
PushAllNoDedup(tweets, tws) ==
  IF tws = <<>> THEN tweets
  ELSE PushAllNoDedup(IF TweetIdOf(Head(tws).url) = NoId THEN tweets
                      ELSE Append(tweets, StoredTweet(Head(tws))),
                      Tail(tws))

RECURSIVE PushAll(_, _)
\* the loop of TweetDatabase.scrapeTweets: records without an id are skipped
PushAll(tweets, tws) ==
  IF tws = <<>> THEN tweets
  ELSE PushAll(IF TweetIdOf(Head(tws).url) = NoId THEN tweets ELSE PushIfNew(tweets, Head(tws)),
               Tail(tws))

\* ------------------------------------------------------- shared store
NoDoc == [present |-> FALSE, sid |-> "s1", m |-> Val(0, 1)]
\* tweetDoc of saveTweet: session_id and the parsed metrics
TweetDoc(tw, sid) == [present |-> TRUE, sid |-> sid, m |-> parseMetric(tw.m)]
NoSession == [present |-> FALSE, status |-> "none", found |-> -1]

VARIABLES
  files,       \* [Paths -> content]: the local session files
  locks,       \* [Paths -> BOOLEAN]: whether <path>.lock exists
  shareData,   \* TweetDatabase.shareData of the TwitterScraper's database (scraper.db)
  dbTweets,    \* shared store, tweets collection, keyed by tweet_id
  dbSessions,  \* shared store, sessions collection, keyed by _id
  calls,       \* [Callers -> the call in flight in that slot]
  proc,        \* [Callers -> the OS process the slot runs in]
  tempCalls,   \* the calls of TempStorage in flight, cut at their awaits: slot 0 is the
               \* initialize the constructor of TwitterScraper starts, the others
               \* are saveTempData calls
  dbShareData, \* shareData of the TweetDatabase config.js constructs (db) and hands
               \* to AutoScraper and ChatManager; the ipc handlers of sessions use scraper.db
  used,        \* session ids generated so far
  opened,      \* session ids returned by startScrapingSession
  acked,       \* history: <<path, id, metric>> of the last saveTweet that returned true for
               \* that id, since the path was last deleted
  sent,        \* history: <<path, id, n, op>>: the n-th call, a saveTweet or scrapeTweets,
               \* was handed a record deriving id for the file at path (since the path
               \* was last deleted)
  ncalls,      \* number of calls made from outside the orchestrator
  orch,        \* the TwitterScraper entry point in progress (process proc[1])
  temp,        \* the files of the temp directory: [id, type, tweets] is the file
               \* `${sessionId}_${data.type}.json` holding the payload data
  isInitialized, \* TempStorage.isInitialized
  lastTemp,    \* history: [id -> the payload of the last saveTempData that wrote its file
               \* for that session id, since the last deleteTempData that returned for it]
  crashes      \* number of process crashes

vars == <<files, locks, shareData, dbTweets, dbSessions, calls, proc, tempCalls, dbShareData, used, opened, acked,
          sent, ncalls, crashes, orch, temp, isInitialized, lastTemp>>

Idle ==
  [op |-> "idle", pc |-> "idle", sid |-> "s1", src |-> "app", tws |-> <<>>,
   data |-> FileAbsent, status |-> "none", found |-> 0, res |-> "none", out |-> <<>>,
   conc |-> FALSE, inst |-> "scraper"]

\* a call that has returned (res "true"/"false") or thrown (res "throw"); its
\* arguments stay readable until the caller picks the result up
Finished(call, res, out) ==
  [call EXCEPT !.pc = "done", !.res = res, !.out = out, !.data = FileAbsent]

\* the file a call works on
PathOf(call) ==
  IF call.op = "saveTweet" THEN SaveTweetPath(call.src, call.sid)
  ELSE IF call.op \in {"saveProfile", "batch"} THEN AppPath(call.sid)
  ELSE SourcePath(call.src, call.sid)

\* mutant: an await between the existence check and the creation of the lock file
RunnableWithAwait(c) == TRUE

\* Javascript runs one call at a time per process: between existsSync and
\* writeFileSync (pc "create") there is no await, so no other call of the same
\* process runs there.
Runnable(c) == \A d \in Callers \ {c} : proc[d] = proc[c] => calls[d].pc # "create"

\* a call that has created the lock file and not yet removed it
HoldsLock(c) ==
  /\ calls[c].op \in {"saveTweet", "saveProfile", "batch"}
  /\ calls[c].pc \in {"read", "write", "writing", "mongo", "count"}

Lockers == {"saveTweet", "saveProfile", "batch"}

\* mutant: the lock file is unlinked at the end of the try block, not in a
\* finally: a call that throws leaves it
EndKeepLockOnThrow(c, res, out) ==
  LET call == calls[c] IN
  /\ calls' = [calls EXCEPT ![c] = Finished(call, res, out)]
  /\ locks' = IF call.op \in {"saveTweet", "saveProfile", "batch"} /\ res # "throw"
              THEN [locks EXCEPT ![PathOf(call)] = FALSE] ELSE locks
  /\ acked' = IF call.op = "saveTweet" /\ res = "true"
              THEN {a \in acked : ~(a[1] = PathOf(call) /\ a[2] = TweetIdOf(call.tws[1].url))}
                   \cup {<<PathOf(call), TweetIdOf(call.tws[1].url), call.tws[1].m>>}
              ELSE acked
  /\ opened' = IF call.op = "start" /\ res = "true" THEN opened \cup {call.sid} ELSE opened

\* The call in slot c ends: return or throw.  saveTweet, saveProfile and
\* scrapeTweets run their finally block here (fs.unlinkSync(lockFile)).
End(c, res, out) ==
  LET call == calls[c] IN
  /\ calls' = [calls EXCEPT ![c] = Finished(call, res, out)]
  /\ locks' = IF call.op \in Lockers THEN [locks EXCEPT ![PathOf(call)] = FALSE] ELSE locks
  /\ acked' = IF call.op = "saveTweet" /\ res = "true"
              THEN {a \in acked : ~(a[1] = PathOf(call) /\ a[2] = TweetIdOf(call.tws[1].url))}
                   \cup {<<PathOf(call), TweetIdOf(call.tws[1].url), call.tws[1].m>>}
              ELSE acked
  /\ opened' = IF call.op = "start" /\ res = "true" THEN opened \cup {call.sid} ELSE opened

\* The call in slot c goes on to its next await.
Go(c, pc, data) ==
  /\ calls' = [calls EXCEPT ![c] = [@ EXCEPT !.pc = pc, !.data = data]]
  /\ UNCHANGED <<locks, acked, opened>>

\* this.shareData of the TweetDatabase a call runs on: the one of the scraper
\* (inst "scraper") or the one config.js hands to AutoScraper (inst "db")
ShareDataOf(call) == IF call.inst = "db" THEN dbShareData ELSE shareData

\* what follows the local write of saveTweet, saveProfile and scrapeTweets:
\* if (this.shareData) { await this.ensureConnection(); ... }  else return
AfterLocal(c, data) ==
  IF ShareDataOf(calls[c]) THEN Go(c, "mongo", data)
  ELSE End(c, "true", <<>>)

\* ---------------------------------------------------------------- calls
Call(op, pc, sid, src, tws, data, status, found) ==
  [op |-> op, pc |-> pc, sid |-> sid, src |-> src, tws |-> tws, data |-> data,
   status |-> status, found |-> found, res |-> "none", out |-> <<>>, conc |-> FALSE,
   inst |-> "scraper"]

\* the ids the records of a list derive
DerivedIds(tws) == {TweetIdOf(tws[i].url) : i \in 1..Len(tws)} \ {NoId}

\* A call begins in the free slot c.  conc records that another call was in
\* flight at that moment.
NewCall(c, call) ==
  /\ calls[c].op = "idle"
  /\ Runnable(c)
  /\ ncalls < MaxCalls
  /\ ncalls' = ncalls + 1
  /\ calls' = [calls EXCEPT ![c] =
       [call EXCEPT !.conc = \E d \in Callers \ {c} : calls[d].pc \notin {"idle", "done"}]]
  /\ sent' = IF call.op \in {"saveTweet", "batch"}
             THEN sent \cup {<<PathOf(call), id, ncalls + 1, call.op>> : id \in DerivedIds(call.tws)}
             ELSE sent

\* no entry point of TwitterScraper is running (history: tried is the records
\* handed to saveTweet so far, in order; mode is this.db.shareData as
\* startScrapingSession read it; staged is whether saveTempData has returned;
\* savedTweets is the records whose saveTweet returned, in order)
NoScrape ==
  [fn |-> "none", type |-> "none", pc |-> "idle", sid |-> NoSessionId, tws |-> <<>>,
   i |-> 1, success |-> 0, failed |-> 0, tried |-> <<>>, mode |-> FALSE, staged |-> FALSE,
   savedTweets |-> <<>>]

\* the id of the next session: unique per call (insertedId, or local_<time>_<random>)
FreshSession ==
  SessionOrder[CHOOSE i \in 1..Len(SessionOrder) :
                 /\ SessionOrder[i] \notin used
                 /\ \A j \in 1..(i - 1) : SessionOrder[j] \in used]

\* startScrapingSession(type, target, source): a fresh id, then the insert
\* (shared mode) or the creation of the local file (local mode)
InvokeStart(c, sids, srcs) ==
  /\ used # Sessions
  /\ FreshSession \in sids
  /\ \E src \in srcs :
       NewCall(c, Call("start", IF shareData THEN "mongo" ELSE "write", FreshSession, src,
                       <<>>, StartedSessionData, "none", 0))
  /\ used' = used \cup {FreshSession}
  /\ UNCHANGED <<orch, temp, isInitialized, lastTemp>>
  /\ UNCHANGED <<files, locks, shareData, dbTweets, dbSessions, proc, tempCalls, dbShareData, opened, acked, crashes>>

\* mutant: the derived id is not tested: every record goes on to the lock
SaveTweetCallUnchecked(tw, sid, src) ==
  Call("saveTweet", "check", sid, src, <<tw>>, FileAbsent, "none", 0)

\* saveTweet(tweet, sessionId, source): the id is derived first; a url without
\* one throws before the lock is looked at
SaveTweetCall(tw, sid, src) ==
  IF TweetIdOf(tw.url) = NoId
  THEN Finished(Call("saveTweet", "done", sid, src, <<tw>>, FileAbsent, "none", 0), "throw", <<>>)
  ELSE Call("saveTweet", "check", sid, src, <<tw>>, FileAbsent, "none", 0)

\* the calls of saveProfile, completeScrapingSession and getTweetsBySession
SaveProfileCall(sid) == Call("saveProfile", "check", sid, "app", <<>>, FileAbsent, "none", 0)
CompleteCall(sid, src, found, status) ==
  Call("complete", IF shareData THEN "mongo" ELSE "read", sid, src, <<>>, FileAbsent,
       status, found)
GetTweetsCall(sid, src) ==
  Call("getTweets", IF shareData THEN "mongo" ELSE "read", sid, src, <<>>, FileAbsent,
       "none", 0)

InvokeSaveTweet(c, srcs, tws) ==
  /\ \E sid \in opened, src \in srcs, tw \in tws :
       NewCall(c, SaveTweetCall(tw, sid, src))
  /\ UNCHANGED <<orch, temp, isInitialized, lastTemp>>
  /\ UNCHANGED <<files, locks, shareData, dbTweets, dbSessions, proc, tempCalls, dbShareData, used, opened, acked, crashes>>

\* saveProfile(profile, sessionId)
InvokeSaveProfile(c) ==
  /\ \E sid \in opened :
       NewCall(c, SaveProfileCall(sid))
  /\ UNCHANGED <<orch, temp, isInitialized, lastTemp>>
  /\ UNCHANGED <<files, locks, shareData, dbTweets, dbSessions, proc, tempCalls, dbShareData, used, opened, acked, crashes>>

\* TweetDatabase.scrapeTweets(tweets, sessionId): a batch commit
InvokeBatch(c, batches) ==
  /\ \E sid \in opened, b \in batches :
       NewCall(c, Call("batch", "check", sid, "app", b, FileAbsent, "none", 0))
  /\ UNCHANGED <<orch, temp, isInitialized, lastTemp>>
  /\ UNCHANGED <<files, locks, shareData, dbTweets, dbSessions, proc, tempCalls, dbShareData, used, opened, acked, crashes>>

\* completeScrapingSession(sessionId, tweetsFound, status, source)
InvokeComplete(c, srcs, counts, statuses) ==
  /\ \E sid \in opened, src \in srcs, n \in counts, st \in statuses :
       NewCall(c, CompleteCall(sid, src, n, st))
  /\ UNCHANGED <<orch, temp, isInitialized, lastTemp>>
  /\ UNCHANGED <<files, locks, shareData, dbTweets, dbSessions, proc, tempCalls, dbShareData, used, opened, acked, crashes>>

\* getTweetsBySession(sessionId, source)
InvokeGetTweets(c, srcs) ==
  /\ \E sid \in opened, src \in srcs :
       NewCall(c, GetTweetsCall(sid, src))
  /\ UNCHANGED <<orch, temp, isInitialized, lastTemp>>
  /\ UNCHANGED <<files, locks, shareData, dbTweets, dbSessions, proc, tempCalls, dbShareData, used, opened, acked, crashes>>

\* ---------------------------------------------------------------- steps
\* mutant: the loop gives up waiting: the call goes on although the lock file exists
LockCheckTimeout(c) ==
  /\ calls[c].op \in {"saveTweet", "saveProfile", "batch"}
  /\ calls[c].pc = "check"
  /\ Runnable(c)
  /\ calls' = [calls EXCEPT ![c].pc = "create"]
  /\ UNCHANGED <<orch, temp, isInitialized, lastTemp>>
  /\ UNCHANGED <<files, locks, shareData, dbTweets, dbSessions, proc, tempCalls, dbShareData, used, opened,
                 acked, sent, ncalls, crashes>>

\* mutant: the loop tests a result of existsSync taken once, when the call
\* began: a call that began while another was in flight never leaves the loop
LockCheckCached(c) ==
  /\ calls[c].op \in {"saveTweet", "saveProfile", "batch"}
  /\ calls[c].pc = "check"
  /\ Runnable(c)
  /\ ~locks[PathOf(calls[c])]
  /\ ~calls[c].conc
  /\ calls' = [calls EXCEPT ![c].pc = "create"]
  /\ UNCHANGED <<orch, temp, isInitialized, lastTemp>>
  /\ UNCHANGED <<files, locks, shareData, dbTweets, dbSessions, proc, tempCalls, dbShareData, used, opened,
                 acked, sent, ncalls, crashes>>

\* while (fs.existsSync(lockFile)) await sleep(100): the check that finds no lock
LockCheck(c) ==
  /\ calls[c].op \in Lockers
  /\ calls[c].pc = "check"
  /\ Runnable(c)
  /\ ~locks[PathOf(calls[c])]
  /\ calls' = [calls EXCEPT ![c].pc = "create"]
  /\ UNCHANGED <<orch, temp, isInitialized, lastTemp>>
  /\ UNCHANGED <<files, locks, shareData, dbTweets, dbSessions, proc, tempCalls, dbShareData, used, opened, acked,
                 sent, ncalls, crashes>>

\* fs.writeFileSync(lockFile, '1'), then the read begins
LockCreate(c) ==
  /\ calls[c].pc = "create"
  /\ locks' = [locks EXCEPT ![PathOf(calls[c])] = TRUE]
  /\ calls' = [calls EXCEPT ![c].pc = "read"]
  /\ UNCHANGED <<orch, temp, isInitialized, lastTemp>>
  /\ UNCHANGED <<files, shareData, dbTweets, dbSessions, proc, tempCalls, dbShareData, used, opened, acked,
                 sent, ncalls, crashes>>

\* mutant: saveTweet has no catch around its read: a missing or unparseable
\* session file makes it throw
ReadFileStrict(c) ==
  LET call == calls[c]
      f == files[PathOf(call)]
      readable == PathOf(call) # Undefined /\ f.kind = "ok"
      sd == IF readable THEN f ELSE NewSessionData
  IN
  /\ call.pc = "read"
  /\ Runnable(c)
  /\ CASE call.op = "saveTweet" ->
            IF ~readable THEN End(c, "throw", <<>>)
            ELSE IF tweetExists(sd.tweets, TweetIdOf(call.tws[1].url))
            THEN AfterLocal(c, sd)
            ELSE Go(c, "write", [sd EXCEPT !.tweets = PushIfNew(@, call.tws[1])])
       [] call.op = "saveProfile" -> Go(c, "write", [sd EXCEPT !.profile = TRUE])
       [] call.op = "batch" -> Go(c, "write", [sd EXCEPT !.tweets = PushAll(@, call.tws)])
       [] call.op = "complete" ->
            IF readable
            THEN Go(c, "write", [f EXCEPT !.status = call.status, !.found = call.found])
            ELSE End(c, "throw", <<>>)
       [] call.op = "getTweets" ->
            IF readable /\ \A i \in 1..Len(f.tweets) : f.tweets[i].user
            THEN End(c, "true", [i \in 1..Len(f.tweets) |-> f.tweets[i].tweet_id])
            ELSE End(c, "throw", <<>>)
  /\ UNCHANGED <<orch, temp, isInitialized, lastTemp>>
  /\ UNCHANGED <<files, shareData, dbTweets, dbSessions, proc, tempCalls, dbShareData, used, sent, ncalls, crashes>>

\* await fsPromises.readFile + JSON.parse, and the synchronous code up to the next await
ReadFile(c) ==
  LET call == calls[c]
      f == files[PathOf(call)]
      readable == PathOf(call) # Undefined /\ f.kind = "ok"
      sd == IF readable THEN f ELSE NewSessionData
  IN
  /\ call.pc = "read"
  /\ Runnable(c)
  /\ CASE call.op = "saveTweet" ->
            IF tweetExists(sd.tweets, TweetIdOf(call.tws[1].url))
            THEN AfterLocal(c, sd)
            ELSE Go(c, "write", [sd EXCEPT !.tweets = PushIfNew(@, call.tws[1])])
       [] call.op = "saveProfile" -> Go(c, "write", [sd EXCEPT !.profile = TRUE])
       [] call.op = "batch" -> Go(c, "write", [sd EXCEPT !.tweets = PushAll(@, call.tws)])
       [] call.op = "complete" ->
            IF readable
            THEN Go(c, "write", [f EXCEPT !.status = call.status, !.found = call.found])
            ELSE End(c, "throw", <<>>)
       [] call.op = "getTweets" ->
            IF readable /\ \A i \in 1..Len(f.tweets) : f.tweets[i].user
            THEN End(c, "true", [i \in 1..Len(f.tweets) |-> f.tweets[i].tweet_id])
            ELSE End(c, "throw", <<>>)
  /\ UNCHANGED <<orch, temp, isInitialized, lastTemp>>
  /\ UNCHANGED <<files, shareData, dbTweets, dbSessions, proc, tempCalls, dbShareData, used, sent, ncalls, crashes>>

\* await fsPromises.writeFile(path, JSON.stringify(...)): the file is opened
\* and cut to length 0; an undefined path throws
WriteBegin(c) ==
  LET call == calls[c] IN
  /\ call.pc = "write"
  /\ Runnable(c)
  /\ IF PathOf(call) = Undefined
     THEN End(c, "throw", <<>>) /\ UNCHANGED files
     ELSE /\ files' = [files EXCEPT ![PathOf(call)] = FileCorrupt]
          /\ Go(c, "writing", call.data)
  /\ UNCHANGED <<orch, temp, isInitialized, lastTemp>>
  /\ UNCHANGED <<shareData, dbTweets, dbSessions, proc, tempCalls, dbShareData, used, sent, ncalls, crashes>>

\* the write completes: the file holds the serialized object (a file unlinked
\* in between stays unlinked: the bytes went to the open descriptor)
WriteEnd(c) ==
  LET call == calls[c] IN
  /\ call.pc = "writing"
  /\ Runnable(c)
  /\ files' = IF files[PathOf(call)].kind = "absent" THEN files
              ELSE [files EXCEPT ![PathOf(call)] = call.data]
  /\ IF call.op \in Lockers THEN AfterLocal(c, call.data)
     ELSE End(c, "true", <<>>)
  /\ UNCHANGED <<orch, temp, isInitialized, lastTemp>>
  /\ UNCHANGED <<shareData, dbTweets, dbSessions, proc, tempCalls, dbShareData, used, sent, ncalls, crashes>>

RECURSIVE SeqOfSet(_)
\* the elements of a finite set in some fixed order (a cursor's toArray)
SeqOfSet(S) ==
  IF S = {} THEN <<>>
  ELSE LET x == CHOOSE y \in S : TRUE IN <<x>> \o SeqOfSet(S \ {x})

\* countDocuments({ session_id }) / find({ session_id })
DocsOf(db, sid) == {id \in DOMAIN db : db[id].present /\ db[id].sid = sid}

\* updateOne({ tweet_id }, { $set: tweetDoc }, { upsert: true })
Upsert(db, tw, sid) == [db EXCEPT ![TweetIdOf(tw.url)] = TweetDoc(tw, sid)]

RECURSIVE UpsertFirst(_, _, _, _)
\* the first k rounds of the shared-store loop of scrapeTweets (records without
\* an id are skipped)
UpsertFirst(db, tws, sid, k) ==
  IF k = 0 \/ tws = <<>> THEN db
  ELSE UpsertFirst(IF TweetIdOf(Head(tws).url) = NoId THEN db ELSE Upsert(db, Head(tws), sid),
                   Tail(tws), sid, k - 1)

\* the rounds the loop can complete: it stops at a record whose user is null
\* (tweet.user.handle throws)
MaxRounds(tws) ==
  LET bad == {i \in 1..Len(tws) : TweetIdOf(tws[i].url) # NoId /\ ~tws[i].user}
  IN IF bad = {} THEN Len(tws) ELSE (CHOOSE i \in bad : \A j \in bad : i <= j) - 1

\* completeScrapingSession, shared mode: 'failed' is kept, anything else is
\* decided by the count
finalStatus(status, tweetsFound) ==
  IF status # "failed"
  THEN (IF tweetsFound > 0 THEN "completed" ELSE "incomplete")
  ELSE status

\* updateOne({ _id }, { $set: ... }) without upsert: a missing document stays missing
SetSession(db, sid, status, found) ==
  IF db[sid].present
  THEN [db EXCEPT ![sid] = [present |-> TRUE, status |-> status, found |-> found]]
  ELSE db

\* updateSessionTweetCount's $set
CountStatus(n) == IF n > 0 THEN "completed" ELSE "incomplete"

\* One round trip (or, for scrapeTweets, one loop of round trips) to the shared
\* store; ok = FALSE is the store being unreachable or the driver throwing.
Mongo(c) ==
  LET call == calls[c] IN
  /\ call.pc = "mongo"
  /\ Runnable(c)
  /\ \E ok \in BOOLEAN :
       CASE call.op = "saveTweet" ->
              IF ok /\ call.tws[1].user
              THEN /\ dbTweets' = Upsert(dbTweets, call.tws[1], call.sid)
                   /\ Go(c, "count", call.data)
                   /\ UNCHANGED dbSessions
              ELSE End(c, "throw", <<>>) /\ UNCHANGED <<dbTweets, dbSessions>>
         [] call.op = "saveProfile" ->
              /\ End(c, IF ok THEN "true" ELSE "throw", <<>>)
              /\ UNCHANGED <<dbTweets, dbSessions>>
         [] call.op = "batch" ->
              \E k \in 0..MaxRounds(call.tws) :
                /\ ok <=> (k = Len(call.tws))
                /\ dbTweets' = UpsertFirst(dbTweets, call.tws, call.sid, k)
                /\ IF ok THEN Go(c, "count", call.data) ELSE End(c, "throw", <<>>)
                /\ UNCHANGED dbSessions
         [] call.op = "complete" ->
              \* ensureConnection, findOne, updateOne, findOne: updated says
              \* whether the updateOne was done when the call ends
              \E updated \in BOOLEAN :
                /\ ok => updated
                /\ dbSessions' = IF updated
                                 THEN SetSession(dbSessions, call.sid,
                                                 finalStatus(call.status, call.found), call.found)
                                 ELSE dbSessions
                /\ End(c, IF ~ok THEN "throw"
                          ELSE IF dbSessions[call.sid].present THEN "true" ELSE "false", <<>>)
                /\ UNCHANGED dbTweets
         [] call.op = "getTweets" ->
              /\ End(c, IF ok THEN "true" ELSE "throw",
                     IF ok THEN SeqOfSet(DocsOf(dbTweets, call.sid)) ELSE <<>>)
              /\ UNCHANGED <<dbTweets, dbSessions>>
         [] call.op = "start" ->
              IF ok
              THEN /\ dbSessions' = [dbSessions EXCEPT ![call.sid] =
                                       [present |-> TRUE, status |-> "in_progress", found |-> -1]]
                   /\ IF shareData THEN End(c, "true", <<>>) ELSE Go(c, "write", call.data)
                   /\ UNCHANGED dbTweets
              ELSE End(c, "throw", <<>>) /\ UNCHANGED <<dbTweets, dbSessions>>
  /\ UNCHANGED <<orch, temp, isInitialized, lastTemp>>
  /\ UNCHANGED <<files, shareData, proc, tempCalls, dbShareData, used, sent, ncalls, crashes>>

\* updateSessionTweetCount(sessionId): count, then $set tweets_found and status;
\* its errors are logged and swallowed.  saveTweet / scrapeTweets then return true.
Count(c) ==
  LET call == calls[c]
      n == Cardinality(DocsOf(dbTweets, call.sid))
  IN
  /\ call.pc = "count"
  /\ Runnable(c)
  /\ \E ok \in BOOLEAN :
       dbSessions' = IF ok THEN SetSession(dbSessions, call.sid, CountStatus(n), n)
                     ELSE dbSessions
  /\ End(c, "true", <<>>)
  /\ UNCHANGED <<orch, temp, isInitialized, lastTemp>>
  /\ UNCHANGED <<files, shareData, dbTweets, proc, tempCalls, dbShareData, used, sent, ncalls, crashes>>

\* the caller takes the result; the slot is free again
Return(c) ==
  /\ calls[c].pc = "done"
  /\ Runnable(c)
  /\ calls' = [calls EXCEPT ![c] = Idle]
  /\ UNCHANGED <<orch, temp, isInitialized, lastTemp>>
  /\ UNCHANGED <<files, locks, shareData, dbTweets, dbSessions, proc, tempCalls, dbShareData, used, opened, acked,
                 sent, ncalls, crashes>>

\* The OS process p dies: its calls are gone, the files stay as they are (a
\* file being written is cut short, a lock file is left behind).  The next
\* start constructs its TweetDatabase objects from the configuration again.
Crash(p) ==
  /\ crashes < MaxCrashes
  /\ \E c \in Callers : proc[c] = p /\ calls[c].op # "idle"
  /\ calls' = [c \in Callers |-> IF proc[c] = p THEN Idle ELSE calls[c]]
  /\ crashes' = crashes + 1
  /\ orch' = IF p = proc[1] THEN NoScrape ELSE orch
  /\ isInitialized' = IF p = proc[1] THEN FALSE ELSE isInitialized
  /\ dbShareData' = IF p = proc[1] THEN shareData ELSE dbShareData
  /\ UNCHANGED <<temp, lastTemp>>
  /\ UNCHANGED <<files, locks, shareData, dbTweets, dbSessions, proc, tempCalls, used, opened, acked,
                 sent, ncalls>>

\* ipcMain.handle('delete-session') -> DataStore.deleteSession: unlink session_<id>.json
DeleteSession(sid) ==
  /\ sid \in opened
  /\ files[AppPath(sid)].kind # "absent"
  /\ files' = [files EXCEPT ![AppPath(sid)] = FileAbsent]
  /\ acked' = {a \in acked : a[1] # AppPath(sid)}
  /\ sent' = {a \in sent : a[1] # AppPath(sid)}
  /\ UNCHANGED <<orch, temp, isInitialized, lastTemp>>
  /\ UNCHANGED <<locks, shareData, dbTweets, dbSessions, calls, proc, tempCalls, dbShareData, used, opened,
                 ncalls, crashes>>

\* ------------------------------------------------------ TwitterScraper
\* the entry points that drive a browser page
ScrapeFns == {"scrapeProfile", "scrapeTweets", "scrapeHomeTimeline"}
\* the type argument of saveTweets (api-server passes 'profile' or 'home'), and
\* the data.type of the snapshot the other entry points stage
TypesOf(fn) ==
  IF fn = "saveTweets" THEN {"profile", "home"}
  ELSE IF fn = "scrapeProfile" THEN {"profile"}
  ELSE IF fn = "scrapeTweets" THEN {"search"}
  ELSE {"home"}

\* what extractTweets yields (distinct urls; the user element may be missing),
\* or what is handed to saveTweets
Yields ==
  {<<>>,
   <<Tweet(U1, M7, TRUE)>>,
   <<Tweet(U1, M7, TRUE), Tweet(U2, M7, TRUE)>>,
   <<Tweet(U1, M7, TRUE), Tweet(U1q, M15K, TRUE)>>,
   <<Tweet(U2, M7, FALSE)>>}

\* ---------------------------------------------------------- TempStorage
\* Session ids and file names are sequences of characters.  The ids of the
\* sessions the store opens are one symbol each; TempIds are ids a caller of
\* TempStorage may pass, one a prefix of the other.
TempIds == {<<"a">>, <<"a", "b">>}
AllTempIds == TempIds \cup {<<s>> : s \in Sessions}
TempTypes == {"profile", "search", "home"}
\* data.tweets of a payload
Payloads == {<<>>, <<Tweet(U1, M7, TRUE)>>}
NoPayload == [type |-> "none", tweets |-> <<>>]
NoSnapshot == [id |-> <<>>, type |-> "none", tweets |-> <<>>]

\* fileName = `${sessionId}_${data.type}.json`
TempName(f) == f.id \o <<"_", f.type, ".json">>

\* String.prototype.startsWith
IsPrefix(p, q) == Len(p) <= Len(q) /\ SubSeq(q, 1, Len(p)) = p

\* files.filter(f => f.startsWith(sessionId))
StartsWith(f, sid) == IsPrefix(sid, TempName(f))
SessionFiles(t, sid) == {f \in t : StartsWith(f, sid)}

\* the directory after ensureInitialized: the first initialize of a process
\* unlinks every file
Initialized(t) == IF isInitialized THEN t ELSE {}

\* fs.writeFile(filePath, JSON.stringify(tempData)): creates or replaces the file of that name
WriteTemp(t, id, type, tweets) ==
  LET f == [id |-> id, type |-> type, tweets |-> tweets]
  IN {g \in t : TempName(g) # TempName(f)} \cup {f}

\* mutant: deleteTempData unlinks nothing
DeleteTempNothing(t, sid) == t

\* for (const file of sessionFiles) await fs.unlink(...)
DeleteTemp(t, sid) == t \ SessionFiles(t, sid)

\* saveTempData(sessionId, data): ensureInitialized, writeFile, stat; k is the
\* number of these that succeed (3: the call returns the path)
saveTempData(id, type, tweets, k) ==
  /\ isInitialized' = (isInitialized \/ k >= 1)
  /\ temp' = IF k >= 2 THEN WriteTemp(Initialized(temp), id, type, tweets)
             ELSE IF k >= 1 THEN Initialized(temp)
             ELSE temp
  /\ lastTemp' = IF k >= 2 THEN [lastTemp EXCEPT ![id] = [type |-> type, tweets |-> tweets]]
                 ELSE lastTemp

\* deleteTempData(sessionId): ensureInitialized, readdir, unlink each match; ok
\* = FALSE is ensureInitialized or readdir throwing
deleteTempData(id, ok) ==
  /\ isInitialized' = (isInitialized \/ ok)
  /\ temp' = IF ok THEN DeleteTemp(Initialized(temp), id) ELSE temp
  /\ lastTemp' = IF ok THEN [lastTemp EXCEPT ![id] = NoPayload] ELSE lastTemp

\* what loadTempData(sessionId) can return: null, or the content of
\* sessionFiles[0] (the order of readdir is the file system's)
loadTempData(sid) ==
  IF SessionFiles(Initialized(temp), sid) = {} THEN {NoSnapshot}
  ELSE SessionFiles(Initialized(temp), sid)

\* the entry point awaits a call of this.db: the call runs in slot 1
Await(o, pc, call) ==
  /\ orch' = [o EXCEPT !.pc = pc]
  /\ calls' = [calls EXCEPT ![1] = call]
  /\ sent' = IF call.op = "saveTweet"
             THEN sent \cup {<<PathOf(call), id, ncalls, call.op>> : id \in DerivedIds(call.tws)}
             ELSE sent

\* the entry point goes on without a call of this.db
Proceed(o, pc) ==
  /\ orch' = [o EXCEPT !.pc = pc]
  /\ calls' = [calls EXCEPT ![1] = Idle]
  /\ UNCHANGED sent

\* catch (error) { if (sessionId) await completeScrapingSession(sessionId, 0, 'failed'); throw error }
\* saveTweets' catch only logs and rethrows
Catch(o) ==
  IF o.fn = "saveTweets" THEN Proceed(o, "rejected")
  ELSE Await(o, "failing", CompleteCall(o.sid, "app", 0, "failed"))

\* the head of the commit loop, and what follows the loop
NextTweet(o) ==
  IF o.i <= Len(o.tws)
  THEN Await([o EXCEPT !.tried = Append(@, o.tws[o.i])], "saving",
             SaveTweetCall(o.tws[o.i], o.sid, "app"))
  ELSE IF o.fn = "saveTweets"
       THEN Await(o, "close",
                  CompleteCall(o.sid, "app", o.success,
                               IF o.success > 0 THEN "completed" ELSE "failed"))
       ELSE Await(o, "verify", GetTweetsCall(o.sid, "app"))

\* an entry point is called: sessionId = await this.db.startScrapingSession(...)
ScrapeBegin(fns, yields) ==
  /\ orch.pc = "idle"
  /\ calls[1].op = "idle"
  /\ used # Sessions
  /\ \E fn \in fns, tws \in yields :
       \E type \in TypesOf(fn) :
         Await([NoScrape EXCEPT !.fn = fn, !.type = type, !.sid = FreshSession, !.tws = tws,
                                !.mode = shareData],
               "start",
               Call("start", IF shareData THEN "mongo" ELSE "write", FreshSession, "app",
                    <<>>, StartedSessionData, "none", 0))
  /\ used' = used \cup {FreshSession}
  /\ UNCHANGED <<files, locks, shareData, dbTweets, dbSessions, proc, tempCalls, dbShareData, opened, acked, ncalls,
                 crashes, temp, isInitialized, lastTemp>>

\* startScrapingSession has returned or thrown.  saveTweets goes straight to
\* the profile (type 'profile', first tweet's user read) and the commit loop.
ScrapeStarted ==
  /\ orch.pc = "start"
  /\ calls[1].pc = "done"
  /\ IF calls[1].res # "true" THEN Proceed([orch EXCEPT !.sid = NoSessionId], "rejected")
     ELSE IF orch.fn # "saveTweets" THEN Proceed(orch, "extract")
     ELSE IF orch.type = "profile" /\ Len(orch.tws) > 0
          THEN IF orch.tws[1].user THEN Await(orch, "profile", SaveProfileCall(NoSessionId))
               ELSE Catch(orch)
          ELSE NextTweet(orch)
  /\ UNCHANGED <<files, locks, shareData, dbTweets, dbSessions, proc, tempCalls, dbShareData, used, opened, acked, ncalls,
                 crashes, temp, isInitialized, lastTemp>>

\* page.goto, waitForSelector, extractProfileInfo, extractTweets: the page
\* yields the tweets or throws
ScrapeExtract ==
  /\ orch.pc = "extract"
  /\ \E ok \in BOOLEAN : IF ok THEN Proceed(orch, "stage") ELSE Catch(orch)
  /\ UNCHANGED <<files, locks, shareData, dbTweets, dbSessions, proc, tempCalls, dbShareData, used, opened, acked, ncalls,
                 crashes, temp, isInitialized, lastTemp>>

\* mutant: an error of saveTempData is caught and logged, and the commits follow
ScrapeStageUnguarded ==
  /\ orch.pc = "stage"
  /\ \E k \in 0..3 :
       /\ saveTempData(<<orch.sid>>, orch.type, orch.tws, k)
       /\ LET o == [orch EXCEPT !.staged = (k = 3)] IN
          IF orch.fn = "scrapeProfile"
          THEN Await(o, "profile", SaveProfileCall(orch.sid))
          ELSE NextTweet(o)
  /\ UNCHANGED <<files, locks, shareData, dbTweets, dbSessions, proc, tempCalls, dbShareData, used, opened, acked, ncalls,
                 crashes>>

\* tempStorage.saveTempData(sessionId, {type, target, tweets}); k is the number
\* of its steps that succeed
ScrapeStage ==
  /\ orch.pc = "stage"
  /\ \E k \in 0..3 :
       /\ saveTempData(<<orch.sid>>, orch.type, orch.tws, k)
       /\ IF k < 3 THEN Catch(orch)
          ELSE IF orch.fn = "scrapeProfile"
               THEN Await([orch EXCEPT !.staged = TRUE], "profile", SaveProfileCall(orch.sid))
               ELSE NextTweet([orch EXCEPT !.staged = TRUE])
  /\ UNCHANGED <<files, locks, shareData, dbTweets, dbSessions, proc, tempCalls, dbShareData, used, opened, acked, ncalls,
                 crashes>>

\* saveProfile has returned or thrown
ScrapeProfiled ==
  /\ orch.pc = "profile"
  /\ calls[1].pc = "done"
  /\ IF calls[1].res = "true" THEN NextTweet(orch) ELSE Catch(orch)
  /\ UNCHANGED <<files, locks, shareData, dbTweets, dbSessions, proc, tempCalls, dbShareData, used, opened, acked, ncalls,
                 crashes, temp, isInitialized, lastTemp>>

\* mutant: a saveTweet that throws ends the loop (the error reaches the outer catch)
ScrapeSavedAbort ==
  /\ orch.pc = "saving"
  /\ calls[1].pc = "done"
  /\ IF calls[1].res = "true"
     THEN NextTweet([orch EXCEPT !.i = @ + 1, !.success = @ + 1,
                                 !.savedTweets = Append(@, orch.tws[orch.i])])
     ELSE Catch([orch EXCEPT !.failed = @ + 1])
  /\ UNCHANGED <<files, locks, shareData, dbTweets, dbSessions, proc, tempCalls, dbShareData, used, opened, acked, ncalls,
                 crashes, temp, isInitialized, lastTemp>>

\* try { await saveTweet; success++ } catch { failed++ }, then the next round
ScrapeSaved ==
  /\ orch.pc = "saving"
  /\ calls[1].pc = "done"
  /\ NextTweet(IF calls[1].res = "true"
               THEN [orch EXCEPT !.i = @ + 1, !.success = @ + 1,
                                 !.savedTweets = Append(@, orch.tws[orch.i])]
               ELSE [orch EXCEPT !.i = @ + 1, !.failed = @ + 1])
  /\ UNCHANGED <<files, locks, shareData, dbTweets, dbSessions, proc, tempCalls, dbShareData, used, opened, acked, ncalls,
                 crashes, temp, isInitialized, lastTemp>>

\* getTweetsBySession has returned or thrown; isSuccessful = results.success > 0
ScrapeVerified ==
  /\ orch.pc = "verify"
  /\ calls[1].pc = "done"
  /\ IF calls[1].res # "true" THEN Catch(orch)
     ELSE IF orch.success > 0 THEN Proceed(orch, "unstage")
     ELSE Await(orch, "close", CompleteCall(orch.sid, "app", orch.success, "incomplete"))
  /\ UNCHANGED <<files, locks, shareData, dbTweets, dbSessions, proc, tempCalls, dbShareData, used, opened, acked, ncalls,
                 crashes, temp, isInitialized, lastTemp>>

\* tempStorage.deleteTempData(sessionId), then completeScrapingSession(..., 'completed')
ScrapeUnstage ==
  /\ orch.pc = "unstage"
  /\ \E ok \in BOOLEAN :
       /\ deleteTempData(<<orch.sid>>, ok)
       /\ IF ok
          THEN Await(orch, "close", CompleteCall(orch.sid, "app", orch.success, "completed"))
          ELSE Catch(orch)
  /\ UNCHANGED <<files, locks, shareData, dbTweets, dbSessions, proc, tempCalls, dbShareData, used, opened, acked, ncalls,
                 crashes>>

\* the closing completeScrapingSession has returned or thrown
ScrapeClosed ==
  /\ orch.pc = "close"
  /\ calls[1].pc = "done"
  /\ IF calls[1].res = "throw" THEN Catch(orch) ELSE Proceed(orch, "returned")
  /\ UNCHANGED <<files, locks, shareData, dbTweets, dbSessions, proc, tempCalls, dbShareData, used, opened, acked, ncalls,
                 crashes, temp, isInitialized, lastTemp>>

\* the catch block's completeScrapingSession has returned or thrown: the entry
\* point rejects (with the first error, or with the one of the catch block)
ScrapeFailed ==
  /\ orch.pc = "failing"
  /\ calls[1].pc = "done"
  /\ Proceed(orch, "rejected")
  /\ UNCHANGED <<files, locks, shareData, dbTweets, dbSessions, proc, tempCalls, dbShareData, used, opened, acked, ncalls,
                 crashes, temp, isInitialized, lastTemp>>

\* the tweets of the object scrapeProfile and scrapeTweets return:
\* tweets.slice(0, results.success)
ReturnedTweets(o) == SubSeq(o.tws, 1, o.success)

\* the caller of the entry point has its result
ScrapeEnd ==
  /\ orch.pc \in {"returned", "rejected"}
  /\ orch' = NoScrape
  /\ UNCHANGED <<files, locks, shareData, dbTweets, dbSessions, calls, proc, tempCalls, dbShareData, used, opened, acked,
                 sent, ncalls, crashes, temp, isInitialized, lastTemp>>

\* ---------------------------------------------------------- AutoScraper
\* the next round of runCycle's loop over data.tweets = tweets.slice(0,
\* results.success): await this.db.saveTweet(tweet, data.sessionId), on the
\* TweetDatabase AutoScraper was constructed with
CycleNext(o) ==
  IF o.i <= o.success
  THEN Await(o, "cycle", [SaveTweetCall(o.tws[o.i], o.sid, "app") EXCEPT !.inst = "db"])
  ELSE Proceed(o, "cycled")

\* runCycle has the result of scrapeProfile or scrapeHomeTimeline (whose result
\* has no tweets: the for-of throws and the profile's catch takes it)
CycleBegin ==
  /\ orch.pc = "returned"
  /\ orch.fn \in {"scrapeProfile", "scrapeHomeTimeline"}
  /\ IF orch.fn = "scrapeProfile" THEN CycleNext([orch EXCEPT !.i = 1])
     ELSE Proceed(orch, "cycled")
  /\ UNCHANGED <<files, locks, shareData, dbTweets, dbSessions, proc, tempCalls, dbShareData, used, opened,
                 acked, ncalls, crashes, temp, isInitialized, lastTemp>>

\* a saveTweet of runCycle has returned, or thrown (no try in the loop: the
\* profile's catch takes the error)
CycleSaved ==
  /\ orch.pc = "cycle"
  /\ calls[1].pc = "done"
  /\ IF calls[1].res = "true" THEN CycleNext([orch EXCEPT !.i = @ + 1])
     ELSE Proceed(orch, "cycled")
  /\ UNCHANGED <<files, locks, shareData, dbTweets, dbSessions, proc, tempCalls, dbShareData, used, opened,
                 acked, ncalls, crashes, temp, isInitialized, lastTemp>>

\* runCycle goes on to the next profile
CycleEnd ==
  /\ orch.pc = "cycled"
  /\ orch' = NoScrape
  /\ UNCHANGED <<files, locks, shareData, dbTweets, dbSessions, calls, proc, tempCalls, dbShareData, used,
                 opened, acked, sent, ncalls, crashes, temp, isInitialized, lastTemp>>

\* mutant: the handler assigns shareData of the scraper's TweetDatabase too
SetDataSharingOnScraper(enabled) ==
  /\ dbShareData' = enabled
  /\ shareData' = enabled
  /\ UNCHANGED <<files, locks, dbTweets, dbSessions, calls, proc, tempCalls, used, opened, acked,
                 sent, ncalls, crashes, orch, temp, isInitialized, lastTemp>>

\* ipcMain.handle('set-data-sharing'): preferencesManager.setDataSharing(enabled),
\* then, if the preferences were saved, db.shareData = enabled
SetDataSharing(enabled) ==
  /\ \E success \in BOOLEAN :
       dbShareData' = IF success THEN enabled ELSE dbShareData
  /\ UNCHANGED <<files, locks, shareData, dbTweets, dbSessions, calls, proc, tempCalls, used, opened, acked,
                 sent, ncalls, crashes, orch, temp, isInitialized, lastTemp>>

\* ------------------------------- TempStorage, cut at its awaits
\* slot 0: the initialize of the constructor; slots 1..NumCallers: saveTempData
\* calls of sessions running at the same time
TempSlots == 0..NumCallers
\* listed is what readdir returned and is still to be unlinked
TempIdle == [op |-> "initialize", pc |-> "idle", id |-> <<>>, type |-> "none", tweets |-> <<>>,
             listed |-> {}]

\* saveTempData(sessionId, data) is called: await this.ensureInitialized() starts
\* an initialize of its own unless isInitialized is already true
SaveTempBegin(k, ids, types, payloads) ==
  /\ k # 0
  /\ tempCalls[k].pc = "idle"
  /\ ncalls < MaxCalls
  /\ ncalls' = ncalls + 1
  /\ \E id \in ids, type \in types, tweets \in payloads :
       tempCalls' = [tempCalls EXCEPT ![k] =
         [op |-> "saveTempData", pc |-> IF isInitialized THEN "write" ELSE "readdir",
          id |-> id, type |-> type, tweets |-> tweets, listed |-> {}]]
  /\ UNCHANGED <<files, locks, shareData, dbTweets, dbSessions, calls, proc, dbShareData, used,
                 opened, acked, sent, crashes, orch, temp, isInitialized, lastTemp>>

\* initialize: await fs.mkdir, then const files = await fs.readdir(this.tempDir)
InitializeReaddir(k) ==
  /\ tempCalls[k].pc = "readdir"
  /\ tempCalls' = [tempCalls EXCEPT ![k].pc = "unlink", ![k].listed = {TempName(f) : f \in temp}]
  /\ UNCHANGED <<files, locks, shareData, dbTweets, dbSessions, calls, proc, dbShareData, used,
                 opened, acked, sent, ncalls, crashes, orch, temp, isInitialized, lastTemp>>

\* initialize: for (const file of files) await fs.unlink(...): one round (an
\* error of unlink, as for a file already gone, is logged and the loop goes on)
InitializeUnlink(k) ==
  /\ tempCalls[k].pc = "unlink"
  /\ \E name \in tempCalls[k].listed :
       /\ temp' = {f \in temp : TempName(f) # name}
       /\ tempCalls' = [tempCalls EXCEPT ![k].listed = @ \ {name}]
  /\ UNCHANGED <<files, locks, shareData, dbTweets, dbSessions, calls, proc, dbShareData, used,
                 opened, acked, sent, ncalls, crashes, orch, isInitialized, lastTemp>>

\* initialize: the loop is over: this.isInitialized = true; a saveTempData that
\* awaited it goes on to its write
InitializeEnd(k) ==
  /\ tempCalls[k].pc = "unlink"
  /\ tempCalls[k].listed = {}
  /\ isInitialized' = TRUE
  /\ tempCalls' = [tempCalls EXCEPT ![k] =
       IF @.op = "saveTempData" THEN [@ EXCEPT !.pc = "write"] ELSE TempIdle]
  /\ UNCHANGED <<files, locks, shareData, dbTweets, dbSessions, calls, proc, dbShareData, used,
                 opened, acked, sent, ncalls, crashes, orch, temp, lastTemp>>

\* saveTempData: await fs.writeFile(filePath, JSON.stringify(tempData))
SaveTempWrite(k) ==
  /\ tempCalls[k].pc = "write"
  /\ temp' = WriteTemp(temp, tempCalls[k].id, tempCalls[k].type, tempCalls[k].tweets)
  /\ lastTemp' = [lastTemp EXCEPT ![tempCalls[k].id] =
                    [type |-> tempCalls[k].type, tweets |-> tempCalls[k].tweets]]
  /\ tempCalls' = [tempCalls EXCEPT ![k].pc = "stat"]
  /\ UNCHANGED <<files, locks, shareData, dbTweets, dbSessions, calls, proc, dbShareData, used,
                 opened, acked, sent, ncalls, crashes, orch, isInitialized>>

\* saveTempData: await fs.stat(filePath) (it throws when the file is gone), and
\* the call returns the path or rejects
SaveTempEnd(k) ==
  /\ tempCalls[k].pc = "stat"
  /\ tempCalls' = [tempCalls EXCEPT ![k] = TempIdle]
  /\ UNCHANGED <<files, locks, shareData, dbTweets, dbSessions, calls, proc, dbShareData, used,
                 opened, acked, sent, ncalls, crashes, orch, temp, isInitialized, lastTemp>>

\* ------------------------------------------------ calls of TempStorage
\* saveTempData(sessionId, data) called with any id, type and payload
TempSave(ids, types, payloads) ==
  /\ \E id \in ids, type \in types, tweets \in payloads, k \in 0..3 :
       saveTempData(id, type, tweets, k)
  /\ UNCHANGED <<files, locks, shareData, dbTweets, dbSessions, calls, proc, tempCalls, dbShareData, used, opened, acked,
                 sent, ncalls, crashes, orch>>

\* loadTempData(sessionId): ensureInitialized, then the read (loadTempData
\* above is what it returns); ok = FALSE is ensureInitialized throwing
TempLoad(ids) ==
  /\ \E id \in ids, ok \in BOOLEAN :
       /\ isInitialized' = (isInitialized \/ ok)
       /\ temp' = IF ok THEN Initialized(temp) ELSE temp
  /\ UNCHANGED <<files, locks, shareData, dbTweets, dbSessions, calls, proc, tempCalls, dbShareData, used, opened, acked,
                 sent, ncalls, crashes, orch, lastTemp>>

\* deleteTempData(sessionId) called with any id
TempDelete(ids) ==
  /\ \E id \in ids, ok \in BOOLEAN : deleteTempData(id, ok)
  /\ UNCHANGED <<files, locks, shareData, dbTweets, dbSessions, calls, proc, tempCalls, dbShareData, used, opened, acked,
                 sent, ncalls, crashes, orch>>

\* this.tempStorage.initialize(), started by the constructor of TwitterScraper
\* and not awaited, completes: every file of the directory is unlinked
TempInitialize ==
  /\ ~isInitialized
  /\ temp' = {}
  /\ isInitialized' = TRUE
  /\ UNCHANGED <<files, locks, shareData, dbTweets, dbSessions, calls, proc, tempCalls, dbShareData, used, opened, acked,
                 sent, ncalls, crashes, orch, lastTemp>>

\* The application quits and is started again: a new TwitterScraper with a new
\* TempStorage (isInitialized = false); the files stay.
Restart ==
  /\ crashes < MaxCrashes
  /\ orch.pc = "idle"
  /\ \A c \in Callers : calls[c].op = "idle"
  /\ crashes' = crashes + 1
  /\ isInitialized' = FALSE
  /\ dbShareData' = shareData
  /\ UNCHANGED <<files, locks, shareData, dbTweets, dbSessions, calls, proc, tempCalls, used, opened, acked,
                 sent, ncalls, orch, temp, lastTemp>>

\* ------------------------------------------------------ specifications
\* the state after construction: no session, no file, no call; the backend
\* mode is whatever the configuration says
InitStore(processOf) ==
  /\ files = [p \in Paths |-> FileAbsent]
  /\ locks = [p \in Paths |-> FALSE]
  /\ shareData \in BOOLEAN
  /\ dbShareData = shareData
  /\ dbTweets = [id \in TweetIds |-> NoDoc]
  /\ dbSessions = [sid \in Sessions |-> NoSession]
  /\ calls = [c \in Callers |-> Idle]
  /\ proc = processOf
  /\ tempCalls = [k \in TempSlots |-> TempIdle]
  /\ used = {}
  /\ opened = {}
  /\ acked = {}
  /\ sent = {}
  /\ ncalls = 0
  /\ crashes = 0
  /\ orch = NoScrape
  /\ temp = {}
  /\ isInitialized = FALSE
  /\ lastTemp = [id \in AllTempIds |-> NoPayload]

\* the state after construction when the constructor's un-awaited
\* this.tempStorage.initialize() is looked at step by step: it is at its first await
InitTempRace ==
  /\ files = [p \in Paths |-> FileAbsent]
  /\ locks = [p \in Paths |-> FALSE]
  /\ shareData \in BOOLEAN
  /\ dbShareData = shareData
  /\ dbTweets = [id \in TweetIds |-> NoDoc]
  /\ dbSessions = [sid \in Sessions |-> NoSession]
  /\ calls = [c \in Callers |-> Idle]
  /\ proc = [c \in Callers |-> 1]
  /\ tempCalls = [k \in TempSlots |-> IF k = 0 THEN [TempIdle EXCEPT !.pc = "readdir"] ELSE TempIdle]
  /\ used = {}
  /\ opened = {}
  /\ acked = {}
  /\ sent = {}
  /\ ncalls = 0
  /\ crashes = 0
  /\ orch = NoScrape
  /\ temp = {}
  /\ isInitialized = FALSE
  /\ lastTemp = [id \in AllTempIds |-> NoPayload]

\* the steps of a call in flight
Work(c) ==
  \/ LockCheck(c)
  \/ LockCreate(c)
  \/ ReadFile(c)
  \/ WriteBegin(c)
  \/ WriteEnd(c)
  \/ Mongo(c)
  \/ Count(c)

\* the steps of a call made from outside the orchestrator
Step(c) == Work(c) \/ Return(c)

\* the lists handed to scrapeTweets
Batches == UNION {[1..n -> BatchTweets] : n \in {0, 1, 2}}

\* Concurrent saveTweet and scrapeTweets calls of one process on the sessions it opened.
InitSave == InitStore([c \in Callers |-> 1])
NextSave ==
  \E c \in Callers :
    \/ InvokeStart(c, {"s1"}, {"app"})
    \/ InvokeSaveTweet(c, {"app"}, SaveTweets)
    \/ InvokeBatch(c, SaveBatches)
    \/ Step(c)
SpecSave == InitSave /\ [][NextSave]_vars

\* Sequential calls of every store operation from one process.
InitSeq == InitStore([c \in Callers |-> 1])
NextSeq ==
  \E c \in {1} :
    \/ InvokeStart(c, {"s1"}, {"app"})
    \/ InvokeSaveTweet(c, {"app"}, TweetsIn)
    \/ InvokeBatch(c, Batches)
    \/ InvokeSaveProfile(c)
    \/ InvokeComplete(c, {"app"}, {0, 1}, {"completed", "incomplete", "failed"})
    \/ InvokeGetTweets(c, {"app"})
    \/ Step(c)
SpecSeq == InitSeq /\ [][NextSeq]_vars

\* Two writers in two OS processes on the sessions of a shared data directory.
InitProc == InitStore([c \in Callers |-> c])
NextProc ==
  \E c \in Callers :
    \/ InvokeStart(c, {"s1"}, {"app"})
    \/ InvokeSaveTweet(c, {"app"}, SaveTweets)
    \/ InvokeSaveProfile(c)
    \/ Step(c)
SpecProc == InitProc /\ [][NextProc]_vars

\* Sequential calls from one process that may crash and start again, and the
\* deletion of sessions between calls.
InitCrash == InitStore([c \in Callers |-> 1])
NextCrash ==
  \/ \E c \in {1} :
       \/ InvokeStart(c, {"s1"}, {"app"})
       \/ InvokeSaveTweet(c, {"app"}, SaveTweets)
       \/ InvokeSaveProfile(c)
       \/ InvokeComplete(c, {"app"}, {1}, {"completed"})
       \/ Step(c)
  \/ Crash(1)
  \/ \E sid \in Sessions : calls[1].op = "idle" /\ DeleteSession(sid)
SpecCrash == InitCrash /\ [][NextCrash]_vars

\* The entry points of TwitterScraper, one at a time, in local and in shared mode.
InitScrape == InitStore([c \in Callers |-> 1])
NextScrape ==
  \/ ScrapeBegin(ScrapeFns \cup {"saveTweets"}, Yields)
  \/ ScrapeStarted
  \/ ScrapeExtract
  \/ ScrapeStage
  \/ ScrapeProfiled
  \/ ScrapeSaved
  \/ ScrapeVerified
  \/ ScrapeUnstage
  \/ ScrapeClosed
  \/ ScrapeFailed
  \/ ScrapeEnd
  \/ Work(1)
SpecScrape == InitScrape /\ [][NextScrape]_vars

\* Calls of TempStorage with any session ids, in a process that may be started again.
InitTemp == InitStore([c \in Callers |-> 1])
NextTemp ==
  \/ TempSave(TempIds, TempTypes, Payloads)
  \/ TempLoad(TempIds)
  \/ TempDelete(TempIds)
  \/ TempInitialize
  \/ Restart
SpecTemp == InitTemp /\ [][NextTemp]_vars

\* saveTempData and loadTempData calls for one session id.
InitStage == InitStore([c \in Callers |-> 1])
NextStage ==
  \/ TempSave({<<"a">>}, TempTypes, Payloads)
  \/ TempLoad({<<"a">>})
SpecStage == InitStage /\ [][NextStage]_vars

\* The browser entry points in an application that may be started again.
InitRestart == InitStore([c \in Callers |-> 1])
NextRestart ==
  \/ ScrapeBegin(ScrapeFns, {<<>>, <<Tweet(U1, M7, TRUE)>>})
  \/ ScrapeStarted
  \/ ScrapeExtract
  \/ ScrapeStage
  \/ ScrapeProfiled
  \/ ScrapeSaved
  \/ ScrapeVerified
  \/ ScrapeUnstage
  \/ ScrapeClosed
  \/ ScrapeFailed
  \/ ScrapeEnd
  \/ Work(1)
  \/ TempLoad({<<s>> : s \in Sessions})
  \/ TempInitialize
  \/ Restart
SpecRestart == InitRestart /\ [][NextRestart]_vars

\* the records handed to saveTweet before a fetch: two urls of one id, a second
\* id, and a record whose User-Name element was not found (user: null)
FetchTweets == {Tweet(U1, M7, TRUE), Tweet(U1q, M15K, TRUE), Tweet(U2, M7, FALSE)}

\* Sequential saveTweet and getTweetsBySession calls on one session.
NextFetch ==
  \E c \in {1} :
    \/ InvokeStart(c, {"s1"}, {"app"})
    \/ InvokeSaveTweet(c, {"app"}, FetchTweets)
    \/ InvokeGetTweets(c, {"app"})
    \/ Step(c)
SpecFetch == InitSeq /\ [][NextFetch]_vars

\* what the page yields in a cycle of AutoScraper
CycleYields == {<<>>, <<Tweet(U1, M7, TRUE)>>, <<Tweet(U1, M7, TRUE), Tweet(U2, M7, TRUE)>>}

\* AutoScraper.runCycle scraping profiles and the home timeline, while the
\* data sharing preference may be set at any time.
NextCycle ==
  \/ ScrapeBegin({"scrapeProfile", "scrapeHomeTimeline"}, CycleYields)
  \/ ScrapeStarted
  \/ ScrapeExtract
  \/ ScrapeStage
  \/ ScrapeProfiled
  \/ ScrapeSaved
  \/ ScrapeVerified
  \/ ScrapeUnstage
  \/ ScrapeClosed
  \/ ScrapeFailed
  \/ ScrapeEnd
  \/ CycleBegin
  \/ CycleSaved
  \/ CycleEnd
  \/ Work(1)
  \/ \E enabled \in BOOLEAN : SetDataSharing(enabled)
SpecCycle == InitScrape /\ [][NextCycle]_vars

\* The raw metric values handed to parseMetric: null, the empty string,
\* numbers (0, 7, 1.5, -1), and every string of one or two characters over a
\* digit, '.', ',', the suffixes and a letter, and "7" and "1.5K"
MetricChars == {"1", ".", ",", "k", "M", "a"}
MetricInputs ==
  {Null, Str(<<>>), Num(0, 1), Num(7, 1), Num(3, 2), Num(-1, 1), M7, M15K}
    \cup {Str(<<a>>) : a \in MetricChars}
    \cup {Str(<<a, b>>) : a \in MetricChars, b \in MetricChars}
MetricTweets == {Tweet(U1, m, TRUE) : m \in MetricInputs}

\* saveTweet calls whose metrics are any of the raw values: the shared-store
\* write applies parseMetric to them.
NextMetric ==
  \E c \in {1} :
    \/ InvokeStart(c, {"s1"}, {"app"})
    \/ InvokeSaveTweet(c, {"app"}, MetricTweets)
    \/ Step(c)
SpecMetric == InitSeq /\ [][NextMetric]_vars

\* the source arguments of the locking calls: 'app', and a value that is neither
\* 'app' nor 'api' (no path: the local write throws)
LockSources == {"app", "false"}

\* Concurrent saveTweet, saveProfile and scrapeTweets calls of one process that
\* never crashes, in local and in shared mode.
NextLock ==
  \E c \in Callers :
    \/ InvokeStart(c, {"s1"}, {"app"})
    \/ InvokeSaveTweet(c, LockSources, {Tweet(U1, M7, TRUE)})
    \/ InvokeSaveProfile(c)
    \/ InvokeBatch(c, {<<Tweet(U1q, M7, TRUE)>>})
    \/ Step(c)
SpecLock == InitSave /\ [][NextLock]_vars

\* Concurrent saveTweet calls of one process on one session file, when every
\* timer and every pending read, write and round trip of a call in flight
\* eventually completes (the event loop runs every continuation that is
\* ready), and callers pick their results up.
NextWait ==
  \E c \in Callers :
    \/ InvokeStart(c, {"s1"}, {"app"})
    \/ InvokeSaveTweet(c, {"app"}, {Tweet(U1, M7, TRUE)})
    \/ Step(c)
SpecWaitFair == InitSave /\ [][NextWait]_vars /\ \A c \in Callers : WF_vars(Step(c))

\* Calls of saveTweet, saveProfile and scrapeTweets, two at a time, in a process
\* that may crash and be started again.
NextStale ==
  \/ \E c \in Callers :
       \/ InvokeStart(c, {"s1"}, {"app"})
       \/ InvokeSaveTweet(c, {"app"}, {Tweet(U1, M7, TRUE)})
       \/ InvokeSaveProfile(c)
       \/ InvokeBatch(c, {<<Tweet(U1q, M7, TRUE)>>})
       \/ Step(c)
  \/ Crash(1)
SpecStale == InitSave /\ [][NextStale]_vars

\* urls that yield no id: no marker, nothing after the marker, a '?' right
\* after it, and the marker twice in a row
UEmpty == <<"h", MARK>>
UQuery == <<"h", MARK, QM, "s">>
UTwice == <<"h", MARK, MARK, "1">>
RejectTweets ==
  {Tweet(u, M7, TRUE) : u \in {U1, UBad, UEmpty, UQuery, UTwice}}

\* Concurrent saveTweet calls of one process, some with urls that yield no id, in
\* local and in shared mode.
NextReject ==
  \E c \in Callers :
    \/ InvokeStart(c, {"s1"}, {"app"})
    \/ InvokeSaveTweet(c, {"app"}, RejectTweets)
    \/ Step(c)
SpecReject == InitSave /\ [][NextReject]_vars

\* Concurrent saveTweet and completeScrapingSession calls of one process on one
\* session (the ipc handlers and the api server run while a scrape goes on).
NextClose ==
  \E c \in Callers :
    \/ InvokeStart(c, {"s1"}, {"app"})
    \/ InvokeSaveTweet(c, {"app"}, SaveTweets)
    \/ InvokeComplete(c, {"app"}, {1}, {"completed"})
    \/ Step(c)
SpecClose == InitSave /\ [][NextClose]_vars

\* Sequential saveTweet and completeScrapingSession calls of a process that may
\* crash in the middle of a write and be started again; no session is deleted.
\* In shared mode startScrapingSession creates no local file.
NextTorn ==
  \/ \E c \in {1} :
       \/ InvokeStart(c, {"s1"}, {"app"})
       \/ InvokeSaveTweet(c, {"app"}, SaveTweets)
       \/ InvokeComplete(c, {"app"}, {1}, {"completed"})
       \/ Step(c)
  \/ Crash(1)
SpecTorn == InitSeq /\ [][NextTorn]_vars

\* Sequential calls of every operation that works on one session, all for
\* sessions of origin 'api' (saveProfile and the deletion of a session take no
\* source argument).
NextOrigin ==
  \/ \E c \in {1} :
       \/ InvokeStart(c, {"s1"}, {"api"})
       \/ InvokeSaveTweet(c, {"api"}, SaveTweets)
       \/ InvokeSaveProfile(c)
       \/ InvokeComplete(c, {"api"}, {1}, {"completed"})
       \/ InvokeGetTweets(c, {"api"})
       \/ Step(c)
  \/ \E sid \in Sessions : calls[1].op = "idle" /\ DeleteSession(sid)
SpecOrigin == InitSeq /\ [][NextOrigin]_vars

\* the status argument of completeScrapingSession as callers pass it: omitted
\* (data-store.js passes two arguments) or one of the three statuses
StatusArgs == {"undefined", "completed", "incomplete", "failed"}
\* the default parameter status = 'completed'
StatusParam(arg) == IF arg = "undefined" THEN "completed" ELSE arg

\* Sequential startScrapingSession and completeScrapingSession calls with every
\* status argument and the counts 0 and 1, in local and in shared mode.
NextComplete ==
  \E c \in {1} :
    \/ InvokeStart(c, {"s1"}, {"app"})
    \/ InvokeComplete(c, {"app"}, {0, 1}, {StatusParam(arg) : arg \in StatusArgs})
    \/ ReadFile(c)
    \/ WriteBegin(c)
    \/ WriteEnd(c)
    \/ Mongo(c)
    \/ Return(c)
SpecComplete == InitSeq /\ [][NextComplete]_vars

\* The constructor's initialize and the saveTempData calls of two sessions
\* running at the same time, in one run of the process, step by step.
NextTempRace ==
  \E k \in TempSlots :
    \/ SaveTempBegin(k, {<<sid>> : sid \in Sessions}, {"profile"}, {<<Tweet(U1, M7, TRUE)>>})
    \/ InitializeReaddir(k)
    \/ InitializeUnlink(k)
    \/ InitializeEnd(k)
    \/ SaveTempWrite(k)
    \/ SaveTempEnd(k)
SpecTempRace == InitTempRace /\ [][NextTempRace]_vars

\* ------------------------------------------------------------ properties
\* no call is between the start and the end of a write of the file at path p
NoWriteInProgress(p) ==
  \A c \in Callers : ~(calls[c].pc = "writing" /\ PathOf(calls[c]) = p)
\* no call is in flight
Quiescent == \A c \in Callers : calls[c].pc \in {"idle", "done"}
AckedIds(p) == {a[2] : a \in {b \in acked : b[1] = p}}
SentIds(p) == {a[2] : a \in {b \in sent : b[1] = p}}
NoDuplicateIds(tweets) ==
  \A i, j \in 1..Len(tweets) : i # j => tweets[i].tweet_id # tweets[j].tweet_id

\* C1: concurrent saveTweet calls of one process on one session file lose no
\* update: a call that has read the file under the lock has seen every record
\* whose saveTweet returned before, and whenever no write of the file is in
\* progress the file's tweets array holds every record whose saveTweet returned true.
C1_NoLostUpdate ==
  /\ \A a \in acked :
       NoWriteInProgress(a[1]) =>
         files[a[1]].kind = "ok" /\ a[2] \in IdsOf(files[a[1]].tweets)
  /\ \A c \in Callers :
       (calls[c].op = "saveTweet" /\ calls[c].pc \in {"write", "writing", "mongo", "count"})
         => AckedIds(PathOf(calls[c])) \subseteq IdsOf(calls[c].data.tweets)

\* two saveTweet calls with different ids on one file, the second begun while
\* another call was in flight, have both returned true and the file holds both records
C1_Witness ==
  \E c, d \in Callers :
    /\ c # d
    /\ calls[c].op = "saveTweet" /\ calls[d].op = "saveTweet"
    /\ calls[c].pc = "done" /\ calls[d].pc = "done"
    /\ calls[c].res = "true" /\ calls[d].res = "true"
    /\ calls[d].conc
    /\ PathOf(calls[c]) = PathOf(calls[d])
    /\ TweetIdOf(calls[c].tws[1].url) # TweetIdOf(calls[d].tws[1].url)
    /\ {TweetIdOf(calls[c].tws[1].url), TweetIdOf(calls[d].tws[1].url)}
         \subseteq IdsOf(files[PathOf(calls[c])].tweets)

\* C4: no tweet_id occurs twice in the tweets array of a session file, nor in
\* the array a call is about to write, whatever the interleaving of saveTweet
\* and scrapeTweets commits of one process.
C4_NoDuplicateIds ==
  /\ \A p \in Paths : NoDuplicateIds(files[p].tweets)
  /\ \A c \in Callers : NoDuplicateIds(calls[c].data.tweets)

\* a batch that carries the same id twice and a saveTweet of that id again have
\* both returned true, and the file holds that id
C4_Witness ==
  \E c, d \in Callers :
    /\ calls[c].op = "batch" /\ calls[c].pc = "done" /\ calls[c].res = "true"
    /\ Len(calls[c].tws) = 2
    /\ TweetIdOf(calls[c].tws[1].url) = TweetIdOf(calls[c].tws[2].url)
    /\ calls[d].op = "saveTweet" /\ calls[d].pc = "done" /\ calls[d].res = "true"
    /\ calls[d].sid = calls[c].sid
    /\ TweetIdOf(calls[d].tws[1].url) = TweetIdOf(calls[c].tws[1].url)
    /\ TweetIdOf(calls[d].tws[1].url) \in IdsOf(files[AppPath(calls[c].sid)].tweets)

\* C5 (as claimed): a saveTweet of an id that an earlier saveTweet on the file
\* returned true for changes nothing in the file and returns true.
C5_RecommitIsNoOp ==
  [][\A c \in Callers :
       LET call == calls[c]
           p == PathOf(call)
       IN (/\ call.op = "saveTweet"
           /\ call.pc \notin {"idle", "done"}
           /\ TweetIdOf(call.tws[1].url) \in AckedIds(p)
           /\ calls'[c] # call)
          => /\ files'[p] = files[p]
             /\ calls'[c].pc = "done" => calls'[c].res = "true"]_vars

\* C6 (as claimed): the stored record carries the metrics of the latest
\* saveTweet that returned true for its id, in the local file as in the shared store.
C6_LatestMetrics ==
  \A a \in acked :
    /\ (NoWriteInProgress(a[1]) /\ files[a[1]].kind = "ok") =>
         \A i \in 1..Len(files[a[1]].tweets) :
           files[a[1]].tweets[i].tweet_id = a[2] => files[a[1]].tweets[i].m = a[3]
    /\ (shareData /\ dbTweets[a[2]].present) => dbTweets[a[2]].m = parseMetric(a[3])

\* C7: when no call is in flight, the file of an opened session holds as many
\* records as there are distinct ids derived from all the records handed to
\* saveTweet and scrapeTweets for it, and the shared store holds no other id.
C7_DistinctIdsStored ==
  Quiescent =>
    \A sid \in opened :
      /\ files[AppPath(sid)].kind \in {"ok", "absent"}
      /\ Len(files[AppPath(sid)].tweets) = Cardinality(SentIds(AppPath(sid)))
      /\ IdsOf(files[AppPath(sid)].tweets) = SentIds(AppPath(sid))
      /\ DocsOf(dbTweets, sid) \subseteq SentIds(AppPath(sid))

\* two batches of scrapeTweets have been committed, the second repeating an id
\* of the first, and the file holds one record per distinct id
C7_Witness ==
  /\ Quiescent
  /\ \E a, b \in sent :
       /\ a[1] = b[1] /\ a[2] = b[2] /\ a[3] < b[3]
       /\ a[4] = "batch" /\ b[4] = "batch"
       /\ files[a[1]].kind = "ok"
       /\ Len(files[a[1]].tweets) = 2
       /\ Cardinality(SentIds(a[1])) = 2

\* the status stored for a session: in the sessions collection (shared
\* mode) or in the session file (local mode)
StoredStatus(sid) == IF shareData THEN dbSessions[sid].status ELSE files[AppPath(sid)].status
Terminal == {"completed", "incomplete", "failed"}

\* C2 (as claimed): writers in separate OS processes: for one session file, at
\* most one call at a time is between the creation and the removal of its lock file.
C2_AtMostOneWriter ==
  \A c, d \in Callers :
    (c # d /\ HoldsLock(c) /\ HoldsLock(d)) => PathOf(calls[c]) # PathOf(calls[d])

\* C3 (as claimed): in local mode, whenever no call is in flight, every record
\* saveTweet returned true for is in its session file, unless the session was
\* deleted since -- also after a crash of the process.
C3_AckedStaysStored ==
  (~shareData /\ Quiescent) =>
    \A a \in acked : files[a[1]].kind = "ok" /\ a[2] \in IdsOf(files[a[1]].tweets)

\* C8 (as claimed): when an entry point returns without error, the stored
\* status of its session is 'incomplete' if it committed no record and
\* 'completed' if it committed at least one.
C8_StatusAtClose ==
  orch.pc = "returned" =>
    StoredStatus(orch.sid) = (IF orch.success = 0 THEN "incomplete" ELSE "completed")

\* C9 (as claimed): when scrapeProfile, scrapeTweets or scrapeHomeTimeline
\* rejects after its session was opened, the stored status of the session is 'failed'.
C9_RejectedIsFailed ==
  (orch.pc = "rejected" /\ orch.fn \in ScrapeFns /\ orch.sid # NoSessionId) =>
    StoredStatus(orch.sid) = "failed"

\* the commit loop of the entry point working on sid is running and has
\* records left to commit
AcceptingCommits(sid) == orch.sid = sid /\ orch.pc = "saving" /\ orch.i < Len(orch.tws)

\* C10 (as claimed): a stored status that is terminal never changes, and it is
\* not terminal while the commit loop of the session's entry point is running.
C10_TerminalOnce ==
  [][\A sid \in Sessions :
       /\ StoredStatus(sid) \in Terminal => StoredStatus(sid)' = StoredStatus(sid)
       /\ AcceptingCommits(sid)' => StoredStatus(sid)' \notin Terminal]_vars

\* C11 (as claimed): a stored status 'failed' stays: no step of a later
\* completeScrapingSession or saveTweet replaces it (a local file in the middle
\* of being rewritten counts by the status about to be written).
C11_FailedIsFinal ==
  [][\A sid \in Sessions :
       StoredStatus(sid) = "failed" =>
         \/ StoredStatus(sid)' = "failed"
         \/ /\ ~shareData
            /\ files'[AppPath(sid)].kind = "corrupt"
            /\ \E c \in Callers :
                 /\ calls'[c].pc = "writing"
                 /\ PathOf(calls'[c]) = AppPath(sid)
                 /\ calls'[c].data.status = "failed"]_vars

\* C12 (as claimed): whenever the stored status of the session of a scrape is
\* 'incomplete' or 'failed', exactly one staging snapshot of that session exists.
C12_OneSnapshotWhenNotCompleted ==
  (/\ orch.fn \in ScrapeFns
   /\ orch.sid # NoSessionId
   /\ StoredStatus(orch.sid) \in {"incomplete", "failed"})
    => Cardinality(SessionFiles(temp, <<orch.sid>>)) = 1

\* C13: when an entry point has returned with status 'completed' (at least one
\* saveTweet succeeded), the temp directory holds no snapshot of its session.
C13_NoSnapshotAfterCompleted ==
  (orch.pc = "returned" /\ orch.success > 0) => SessionFiles(temp, <<orch.sid>>) = {}

\* a scrape that staged a snapshot has returned 'completed' and the snapshot is gone
C13_Witness ==
  /\ orch.pc = "returned"
  /\ orch.fn \in ScrapeFns
  /\ orch.success > 0
  /\ lastTemp[<<orch.sid>>] = NoPayload
  /\ isInitialized
  /\ SessionFiles(temp, <<orch.sid>>) = {}

\* C14 (as claimed): from the opening of a scrape's session on, a snapshot of
\* the session exists exactly when the scrape has not closed it as 'completed'
\* with at least one committed record.
C14_SnapshotIffNotCompleted ==
  (orch.fn \in ScrapeFns /\ orch.sid \in opened) =>
    ((SessionFiles(temp, <<orch.sid>>) # {}) <=> ~(orch.pc = "returned" /\ orch.success > 0))

\* C15 (as claimed): the snapshot retained for a session whose stored status
\* is 'incomplete' or 'failed' is what loadTempData returns for it, also after
\* the application was started again.
C15_SnapshotSurvivesRestart ==
  \A sid \in Sessions :
    (StoredStatus(sid) \in {"incomplete", "failed"} /\ lastTemp[<<sid>>] # NoPayload) =>
      loadTempData(<<sid>>) =
        {[id |-> <<sid>>, type |-> lastTemp[<<sid>>].type, tweets |-> lastTemp[<<sid>>].tweets]}

\* the snapshot saveTempData last wrote for id
LastSnapshot(id) == [id |-> id, type |-> lastTemp[id].type, tweets |-> lastTemp[id].tweets]

\* C16 (as claimed): after saveTempData calls for one session, the temp
\* directory holds at most one snapshot of the session and loadTempData
\* returns the payload of the most recent call.
C16_OneSnapshotLatestPayload ==
  \A id \in TempIds :
    lastTemp[id] # NoPayload =>
      /\ Cardinality(SessionFiles(temp, id)) <= 1
      /\ isInitialized => loadTempData(id) = {LastSnapshot(id)}

\* C17 (as claimed): a saveTempData or deleteTempData call for session a
\* leaves the snapshots of every other session b as they are, and
\* loadTempData(a) returns nothing of another session.
C17_OtherSessionsUntouched ==
  [][\A a \in TempIds :
       /\ ((\E ok \in BOOLEAN : deleteTempData(a, ok))
           \/ (\E type \in TempTypes, tweets \in Payloads, k \in 0..3 :
                 saveTempData(a, type, tweets, k)))
            => \A b \in TempIds \ {a} : {f \in temp : f.id = b} = {f \in temp' : f.id = b}
       /\ \A r \in loadTempData(a)' : r = NoSnapshot \/ r.id = a]_vars

\* the id of the record a saveTweet call was handed
CallId(call) == TweetIdOf(call.tws[1].url)

\* the records among the first n the entry point handed to saveTweet that are
\* in the local file of its session
LocallyStored(n) ==
  {j \in 1..n : /\ TweetIdOf(orch.tws[j].url) # NoId
                /\ TweetIdOf(orch.tws[j].url) \in IdsOf(files[AppPath(orch.sid)].tweets)}

\* C18 (as claimed): in shared mode a saveTweet whose record is in the local
\* file does not throw, and the entry point counts every such record as a success.
C18_MirrorFailureNotRaised ==
  shareData =>
    /\ \A c \in Callers :
         (/\ calls[c].op = "saveTweet"
          /\ calls[c].pc = "done"
          /\ CallId(calls[c]) # NoId
          /\ CallId(calls[c]) \in IdsOf(files[PathOf(calls[c])].tweets))
           => calls[c].res = "true"
    /\ (orch.pc \in {"saving", "verify", "unstage", "close", "returned"})
         => orch.success >= Cardinality(LocallyStored(orch.i - 1))

\* C19: in shared mode, when saveTweet throws after its id was derived (the
\* write to the shared store failed), the record is in the local session file.
C19_LocalRecordKept ==
  \A c \in Callers :
    (/\ shareData
     /\ calls[c].op = "saveTweet"
     /\ calls[c].pc = "done"
     /\ calls[c].res = "throw"
     /\ CallId(calls[c]) # NoId)
      => /\ files[PathOf(calls[c])].kind = "ok"
         /\ CallId(calls[c]) \in IdsOf(files[PathOf(calls[c])].tweets)

\* a saveTweet, the only call that was handed its id, has thrown in shared
\* mode and its record is in the file
C19_Witness ==
  \E c \in Callers :
    /\ shareData
    /\ calls[c].op = "saveTweet"
    /\ calls[c].pc = "done"
    /\ calls[c].res = "throw"
    /\ CallId(calls[c]) # NoId
    /\ Cardinality({a \in sent : a[1] = PathOf(calls[c]) /\ a[2] = CallId(calls[c])}) = 1
    /\ CallId(calls[c]) \in IdsOf(files[PathOf(calls[c])].tweets)

\* C20 (as claimed): in shared mode, whenever no call is in flight, every
\* record the shared store holds for a session is in the session's local file.
C20_SharedSubsetOfLocal ==
  (shareData /\ Quiescent) =>
    \A sid \in Sessions : DocsOf(dbTweets, sid) \subseteq IdsOf(files[AppPath(sid)].tweets)

\* C21 (as claimed): a getTweetsBySession call on a session returns, and what it
\* returns is one record per id whose saveTweet returned true for that session.
\* (A fetch the unreachable shared store fails is left out.)
C21_FetchReturnsCommitted ==
  \A c \in Callers :
    (calls[c].op = "getTweets" /\ calls[c].pc = "done")
      => /\ ~shareData => calls[c].res = "true"
         /\ calls[c].res = "true"
              => /\ {calls[c].out[i] : i \in 1..Len(calls[c].out)} = AckedIds(AppPath(calls[c].sid))
                 /\ Len(calls[c].out) = Cardinality(AckedIds(AppPath(calls[c].sid)))

\* what getTweetsBySession(sid) reads: the ids of the documents of the session
\* in the tweets collection (shared mode) or of the records of the session file
FetchedIds(sid) ==
  IF shareData THEN DocsOf(dbTweets, sid) ELSE IdsOf(files[AppPath(sid)].tweets)
\* tweets_found as stored for a session
StoredCount(sid) == IF shareData THEN dbSessions[sid].found ELSE files[AppPath(sid)].found

\* C22 (as claimed): a step of an entry point working on session B leaves, for
\* every other session A, the records getTweetsBySession(A) reads and A's stored
\* status and count as they are.
C22_OtherSessionUnchanged ==
  [][\A a \in Sessions :
       (a # orch.sid /\ a # orch'.sid)
         => /\ FetchedIds(a)' = FetchedIds(a)
            /\ StoredStatus(a)' = StoredStatus(a)
            /\ StoredCount(a)' = StoredCount(a)]_vars

\* the commit loop of the entry point is over
AfterLoop == orch.pc \in {"verify", "unstage", "close", "returned"}

\* C23: in scrapeProfile, scrapeTweets and scrapeHomeTimeline the records handed
\* to saveTweet are the yielded ones, each once and in yield order, whether or
\* not a saveTweet threw; a saveTweet that has returned or thrown is followed by
\* the next record or by the end of the loop; after the loop success + failed is
\* the number of yielded records.
C23_LoopAttemptsAll ==
  /\ [](orch.fn \in ScrapeFns =>
          /\ orch.pc = "saving"
               => /\ orch.tried = SubSeq(orch.tws, 1, orch.i)
                  /\ orch.success + orch.failed = orch.i - 1
          /\ AfterLoop
               => /\ orch.tried = orch.tws
                  /\ orch.success + orch.failed = Len(orch.tws))
  /\ [][(orch.fn \in ScrapeFns /\ orch.pc = "saving" /\ orch' # orch)
          => /\ orch'.pc \in {"saving", "verify"}
             /\ orch'.i = orch.i + 1
             /\ orch'.pc = "verify" <=> orch.i = Len(orch.tws)]_vars

\* two records were yielded, the saveTweet of the first threw (its document is
\* not in the shared store), the second was committed, and the loop is over
C23_Witness ==
  /\ orch.fn \in ScrapeFns
  /\ orch.pc = "verify"
  /\ shareData
  /\ orch.tws = <<Tweet(U1, M7, TRUE), Tweet(U2, M7, TRUE)>>
  /\ orch.failed = 1
  /\ orch.success = 1
  /\ ~dbTweets[TweetIdOf(U1)].present
  /\ dbTweets[TweetIdOf(U2)].present

\* the session of the entry point is being opened or is open: from the call of
\* startScrapingSession until completeScrapingSession has returned or thrown
SessionOpen ==
  orch.pc \in {"start", "extract", "stage", "profile", "saving", "verify", "unstage", "close",
               "failing"}

\* C24: between a session's open and its close, the TweetDatabase operation in
\* flight on it runs on the scraper's database, and the shareData it sees is the
\* one startScrapingSession saw, whatever the data sharing preference is set to
\* in between.
C24_ModeFixedWhileOpen ==
  SessionOpen =>
    /\ calls[1].inst = "scraper"
    /\ ShareDataOf(calls[1]) = orch.mode

\* the preference was switched off while a session opened in shared mode is
\* open, and a commit of the session is at its shared-store write
C24_Witness ==
  /\ SessionOpen
  /\ orch.mode
  /\ ~dbShareData
  /\ calls[1].op = "saveTweet"
  /\ calls[1].pc = "mongo"

\* C25 (as claimed): once an entry point that opened a session has returned or
\* rejected, the stored status of the session is completed, incomplete or failed.
C25_TerminalWhenFinished ==
  (orch.pc \in {"returned", "rejected"} /\ orch.sid # NoSessionId)
    => StoredStatus(orch.sid) \in Terminal

\* a parsed metric that is a number, whole and not negative
IsCount(x) == ~x.nan /\ x.num >= 0 /\ x.num % x.den = 0

\* C26 (as claimed): every metric parseMetric returned (the ones of the
\* documents of the shared store) is a non-negative integer, never NaN.
C26_MetricIsCount ==
  \A id \in TweetIds : dbTweets[id].present => IsCount(dbTweets[id].m)

\* C27 (as claimed): a call that is writing a session file that already
\* existed (any call but startScrapingSession) has created the lock file of
\* that file and not yet removed it.
C27_WritesUnderLock ==
  \A c \in Callers :
    (calls[c].pc = "writing" /\ calls[c].op # "start")
      => /\ locks[PathOf(calls[c])]
         /\ HoldsLock(c)

\* C28: in a process that does not crash, a lock file exists only while a
\* saveTweet, saveProfile or scrapeTweets call that created it on that file has
\* not yet returned or thrown; a call that has returned or thrown holds none.
C28_LockReleased ==
  \A p \in Paths :
    locks[p] => \E c \in Callers : HoldsLock(c) /\ PathOf(calls[c]) = p

\* a saveTweet has created the lock file and thrown, in the local write (no
\* path) or in the shared-store write, no other call is in flight, and the lock
\* file is gone
C28_Witness ==
  \E c \in Callers :
    /\ calls[c].op = "saveTweet"
    /\ calls[c].pc = "done"
    /\ calls[c].res = "throw"
    /\ \A d \in Callers \ {c} : calls[d].pc \in {"idle", "done"}
    /\ ~locks[PathOf(calls[c])]
    /\ \/ PathOf(calls[c]) = Undefined
       \/ shareData /\ CallId(calls[c]) \in IdsOf(files[PathOf(calls[c])].tweets)

\* C29: in a process that does not crash and whose calls in flight go on, every
\* saveTweet call waiting for the lock of its file eventually returns or throws.
C29_WaiterAcquires ==
  \A c \in Callers :
    (calls[c].op = "saveTweet" /\ calls[c].pc = "check") ~> (calls[c].pc = "done")

\* a saveTweet is polling the lock file of its session file while another call
\* of the process holds it
C29_Witness ==
  \E c \in Callers, d \in Callers :
    /\ c # d
    /\ calls[c].op = "saveTweet"
    /\ calls[c].pc = "check"
    /\ HoldsLock(d)
    /\ PathOf(calls[d]) = PathOf(calls[c])
    /\ locks[PathOf(calls[c])]

\* the lock file of the file at path p exists and no call in flight created it
Stale(p) == locks[p] /\ ~\E c \in Callers : HoldsLock(c) /\ PathOf(calls[c]) = p

\* C30: while the lock file of a session file is stale, every saveTweet,
\* saveProfile and scrapeTweets call on that file is in its polling loop; the
\* lock stays stale and the session file is not written, so such a call never
\* leaves the loop.
C30_StaleLockBlocks ==
  /\ [](\A c \in Callers :
          (calls[c].op \in Lockers /\ Stale(PathOf(calls[c]))) => calls[c].pc = "check")
  /\ [][\A p \in Paths : Stale(p) => (Stale(p)' /\ files'[p] = files[p])]_vars

\* after a crash that left the lock file of a session file, a later saveTweet
\* on that file is polling
C30_Witness ==
  \E c \in Callers :
    /\ crashes > 0
    /\ calls[c].op = "saveTweet"
    /\ calls[c].pc = "check"
    /\ Stale(PathOf(calls[c]))

\* the records stored for a session: the tweets and the profile of its local
\* file, and its documents of the shared store
NothingStored(sid) ==
  /\ files[AppPath(sid)].tweets = <<>>
  /\ ~files[AppPath(sid)].profile
  /\ DocsOf(dbTweets, sid) = {}

\* C31: in scrapeProfile, scrapeTweets and scrapeHomeTimeline, while a saveProfile
\* or saveTweet of the session is in flight saveTempData has returned and the
\* snapshot of the yielded records is in the temp directory; as long as
\* saveTempData has not returned (it is still to come, or it threw) no commit
\* is in flight and nothing is stored for the session.
C31_StagedBeforeCommit ==
  orch.fn \in ScrapeFns =>
    /\ calls[1].op \in {"saveTweet", "saveProfile"}
         => /\ orch.staged
            /\ [id |-> <<orch.sid>>, type |-> orch.type, tweets |-> orch.tws] \in temp
    /\ ~orch.staged
         => /\ calls[1].op \notin {"saveTweet", "saveProfile", "batch"}
            /\ orch.sid # NoSessionId => NothingStored(orch.sid)

\* saveTempData wrote the snapshot of two records and then threw (its stat
\* failed): the entry point has rejected and nothing is stored for the session
C31_Witness ==
  /\ orch.fn \in ScrapeFns
  /\ orch.pc = "rejected"
  /\ ~orch.staged
  /\ Len(orch.tws) = 2
  /\ orch.sid # NoSessionId
  /\ lastTemp[<<orch.sid>>] # NoPayload
  /\ NothingStored(orch.sid)

\* a saveTweet call whose record yields no id
Rejected(call) == call.op = "saveTweet" /\ TweetIdOf(call.tws[1].url) = NoId

\* C32: a saveTweet of a record whose url yields no id has thrown when it is
\* seen: it never waits for, creates or holds the lock, and neither the step in
\* which it is called and throws nor the one in which its caller takes the error
\* changes a session file, a lock file or the shared store.
C32_BadUrlRejected ==
  /\ [](\A c \in Callers :
          Rejected(calls[c]) => calls[c].pc = "done" /\ calls[c].res = "throw")
  /\ [][\A c \in Callers :
          ((Rejected(calls[c]) \/ Rejected(calls'[c])) /\ calls'[c] # calls[c])
            => UNCHANGED <<files, locks, dbTweets, dbSessions>>]_vars

\* a saveTweet of a url with nothing after the marker, called while another
\* call was in flight, has thrown while a saveTweet holds the lock of the same
\* session file
C32_Witness ==
  \E c, d \in Callers :
    /\ c # d
    /\ Rejected(calls[c])
    /\ calls[c].tws[1].url = UEmpty
    /\ calls[c].res = "throw"
    /\ calls[c].conc
    /\ HoldsLock(d)
    /\ PathOf(calls[d]) = PathOf(calls[c])
    /\ locks[PathOf(calls[c])]

\* C33 (as claimed): whenever a call begins to replace a session file that
\* holds a session object, the tweets array the file holds is a prefix of the
\* array the call writes.
C33_AppendOnly ==
  [][\A c \in Callers :
       (/\ calls[c].pc = "write"
        /\ calls'[c].pc = "writing"
        /\ files[PathOf(calls[c])].kind = "ok")
         => IsPrefix(files[PathOf(calls[c])].tweets, calls[c].data.tweets)]_vars

\* the number of records stored for a session: its documents of the shared
\* store in shared mode, the tweets of its local file in local mode
StoredRecords(sid) ==
  IF shareData THEN Cardinality(DocsOf(dbTweets, sid)) ELSE Len(files[AppPath(sid)].tweets)

\* C34 (as claimed): when an entry point has rejected and the stored status of
\* its session is 'failed' while records are stored for the session, the stored
\* tweets_found is the number of those records.
C34_FailedCountIsStored ==
  (/\ orch.pc = "rejected"
   /\ orch.sid # NoSessionId
   /\ StoredStatus(orch.sid) = "failed"
   /\ StoredRecords(orch.sid) > 0)
    => StoredCount(orch.sid) = StoredRecords(orch.sid)

\* the session object saveTweet builds and fills when it could not read the file
OnlyRecord(tw) == [NewSessionData EXCEPT !.tweets = <<StoredTweet(tw)>>]

\* C35: a saveTweet that finds its session file missing, cut short or
\* unparseable when it reads it goes on to write a new session object whose
\* tweets array holds exactly its record; it writes that object unchanged, and
\* when its write ends the file holds it and is valid.
C35_UnreadableIsEmpty ==
  [][\A c \in Callers :
       LET call == calls[c]
           p == PathOf(call)
       IN (call.op = "saveTweet" /\ calls'[c].op = "saveTweet" /\ calls'[c].pc # call.pc)
            => /\ (call.pc = "read" /\ files[p].kind # "ok")
                  => /\ calls'[c].pc = "write"
                     /\ calls'[c].data = OnlyRecord(call.tws[1])
               /\ call.pc = "write"
                  => calls'[c].pc = "writing" /\ calls'[c].data = call.data
               /\ call.pc = "writing"
                  => files'[p] = call.data /\ files'[p].kind = "ok"]_vars

\* in local mode a saveTweet has returned true and the session file, which
\* startScrapingSession had written and a crash during the write of
\* completeScrapingSession had cut short, holds the new session object with
\* exactly the record of that call
C35_Witness ==
  /\ ~shareData
  /\ crashes = 1
  /\ calls[1].op = "saveTweet"
  /\ calls[1].pc = "done"
  /\ calls[1].res = "true"
  /\ files[PathOf(calls[1])] = OnlyRecord(calls[1].tws[1])

\* C36 (as claimed): when every session is opened with origin 'api' and every
\* operation on it is made for that origin, no file session_<id>.json of the
\* origin 'app' and no lock file of one is ever created.
C36_OriginsDisjoint ==
  \A sid \in Sessions :
    /\ files[AppPath(sid)] = FileAbsent
    /\ ~locks[AppPath(sid)]

\* C37 (as claimed): when an entry point has returned (its closing
\* completeScrapingSession did not throw), the stored tweets_found of its
\* session is the number of records stored for the session.
C37_CountAtClose ==
  (orch.pc = "returned" /\ orch.sid # NoSessionId)
    => StoredCount(orch.sid) = StoredRecords(orch.sid)

\* C38 (as claimed): when scrapeProfile or scrapeTweets has returned, the
\* tweets list of its result is the list of the yielded records whose saveTweet
\* returned, in yield order.
C38_ReturnsSavedTweets ==
  (orch.pc = "returned" /\ orch.fn \in {"scrapeProfile", "scrapeTweets"})
    => ReturnedTweets(orch) = orch.savedTweets

\* C39 (as claimed): the status a completeScrapingSession that returned true
\* has stored is, in local mode too, the one shared mode stores for the same
\* tweetsFound and status: 'failed' as given, otherwise 'completed' for a
\* positive count and 'incomplete' for 0.
C39_SameStatusBothModes ==
  \A c \in Callers :
    (calls[c].op = "complete" /\ calls[c].pc = "done" /\ calls[c].res = "true")
      => StoredStatus(calls[c].sid) = finalStatus(calls[c].status, calls[c].found)

\* C40 (as claimed): in one run of the process no file of the temp directory
\* that a saveTempData of this run wrote is removed: every file name present
\* before a step is present after it (the directory is empty at the start and
\* nothing but initialize unlinks).
C40_InitializeKeepsSnapshots ==
  [][\A f \in temp : \E g \in temp' : TempName(g) = TempName(f)]_vars

====
